---------------------------- MODULE Spec2Model ----------------------------
(***************************************************************************)
(* State-machine model of the rowing model-time bot (src/index.js).        *)
(*                                                                         *)
(* Texts are sequences of one-character strings, so that equality,         *)
(* String.includes, trim, split and the number parsers are computed on     *)
(* characters as the source computes them.  Cyrillic letters are written   *)
(* by a fixed one-to-one transliteration (one sequence element per source  *)
(* character).                                                             *)
(*                                                                         *)
(* Numbers of seconds are integers in thousandths of a second; a           *)
(* percentage rendered by toFixed(2) is an integer in hundredths of a      *)
(* percent.  Timestamps are left out of every record.                      *)
(***************************************************************************)
EXTENDS Integers, Sequences, FiniteSets, TLC

(***************************************************************************)
(* languages.ru labels and the literals of the mode matcher                *)
(***************************************************************************)
worldModel ==
    <<"M", "i", "r", "o", "v", "a", "ya", " ", "m", "o", "d", "e", "l", "q">>
russiaModel ==
    <<"R", "o", "s", "s", "i", "j", "s", "k", "a", "ya", " ", "m", "o", "d", "e", "l", "q", " ", "(", "N", ".", "N", ".", ")">>
singleTime ==
    <<"V", "v", "e", "s", "t", "i", " ", "o", "d", "n", "o", " ", "v", "r", "e", "m", "ya">>
createFile ==
    <<"S", "o", "z", "d", "a", "t", "q", " ", "f", "a", "j", "l", " ", "s", " ", "r", "e", "z", "u", "l", "q", "t", "a", "t", "a", "m", "i">>
enterMoreTime ==
    <<"V", "v", "e", "s", "t", "i", " ", "e", "sch", "e", " ", "v", "r", "e", "m", "ya">>
newName ==
    <<"N", "o", "v", "o", "e", " ", "i", "m", "ya">>
finishAndGetExcel ==
    <<"Z", "a", "v", "e", "r", "sh", "i", "t", "q", " ", "i", " ", "p", "o", "l", "u", "ch", "i", "t", "q", " ", "E", "x", "c", "e", "l">>
editLastTime ==
    <<"R", "e", "d", "a", "k", "t", "i", "r", "o", "v", "a", "t", "q", " ", "p", "o", "s", "l", "e", "d", "n", "e", "e", " ", "v", "r", "e", "m", "ya">>
cancelText ==
    <<"O", "t", "m", "e", "n", "a">>
tokCreateRu ==
    <<"S", "o", "z", "d", "a", "t", "q", " ", "f", "a", "j", "l">>
tokCreateEn ==
    <<"C", "r", "e", "a", "t", "e", " ", "r", "e", "s", "u", "l", "t", "s", " ", "f", "i", "l", "e">>
tokCreateKey ==
    <<"c", "r", "e", "a", "t", "e", "F", "i", "l", "e">>
tokSingleRu ==
    <<"V", "v", "e", "s", "t", "i", " ", "o", "d", "n", "o", " ", "v", "r", "e", "m", "ya">>
tokSingleEn ==
    <<"E", "n", "t", "e", "r", " ", "s", "i", "n", "g", "l", "e", " ", "t", "i", "m", "e">>
tokSingleKey ==
    <<"s", "i", "n", "g", "l", "e", "T", "i", "m", "e">>
worldAgeCategories ==
    << <<"YU", "n", "o", "sh", "i", " ", "d", "o", " ", "1", "9">>,
       <<"D", "e", "v", "u", "sh", "k", "i", " ", "d", "o", " ", "1", "9">>,
       <<"YU", "n", "i", "o", "r", "y", " ", "d", "o", " ", "2", "3">>,
       <<"YU", "n", "i", "o", "r", "k", "i", " ", "d", "o", " ", "2", "3">>,
       <<"M", "u", "zh", "ch", "i", "n", "a">>,
       <<"ZH", "e", "n", "sch", "i", "n", "y">> >>
russiaAgeCategories ==
    << <<"YU", "n", "o", "sh", "i", " ", "d", "o", " ", "1", "5">>,
       <<"D", "e", "v", "u", "sh", "k", "i", " ", "d", "o", " ", "1", "5">>,
       <<"YU", "n", "o", "sh", "i", " ", "d", "o", " ", "1", "7">>,
       <<"D", "e", "v", "u", "sh", "k", "i", " ", "d", "o", " ", "1", "7">>,
       <<"YU", "n", "o", "sh", "i", " ", "d", "o", " ", "1", "9">>,
       <<"D", "e", "v", "u", "sh", "k", "i", " ", "d", "o", " ", "1", "9">>,
       <<"YU", "n", "i", "o", "r", "y", " ", "d", "o", " ", "2", "3">>,
       <<"YU", "n", "i", "o", "r", "k", "i", " ", "d", "o", " ", "2", "3">>,
       <<"M", "u", "zh", "ch", "i", "n", "a">>,
       <<"ZH", "e", "n", "sch", "i", "n", "y">> >>
boatClasses ==
    << <<"1", "kh">>,
       <<"1", "kh", " ", "l", "/", "v">>,
       <<"2", "-">>,
       <<"2", "-", " ", "l", "/", "v">>,
       <<"2", "kh">>,
       <<"2", "kh", " ", "l", "/", "v">>,
       <<"4", "-">>,
       <<"4", "kh">>,
       <<"4", "kh", " ", "l", "/", "v">>,
       <<"4", "+">>,
       <<"8", "+">> >>

(***************************************************************************)
(* String primitives of the language runtime                               *)
(***************************************************************************)
\* String.prototype.includes
Includes(text, pat) ==
    \E i \in 0..(Len(text) - Len(pat)) : SubSeq(text, i + 1, i + Len(pat)) = pat

RECURSIVE TrimLeft(_)
TrimLeft(s) ==
    IF s # << >> /\ Head(s) = " " THEN TrimLeft(Tail(s)) ELSE s

RECURSIVE TrimRight(_)
TrimRight(s) ==
    IF s # << >> /\ s[Len(s)] = " " THEN TrimRight(SubSeq(s, 1, Len(s) - 1)) ELSE s

\* String.prototype.trim
Trim(s) == TrimRight(TrimLeft(s))

\* index of the first occurrence of the character c at or after position i, 0 if none
RECURSIVE IndexFrom(_, _, _)
IndexFrom(s, c, i) ==
    IF i > Len(s) THEN 0 ELSE IF s[i] = c THEN i ELSE IndexFrom(s, c, i + 1)

\* String.prototype.split with a one-character separator
RECURSIVE Split(_, _)
Split(s, c) ==
    LET k == IndexFrom(s, c, 1)
    IN  IF k = 0 THEN << s >>
        ELSE << SubSeq(s, 1, k - 1) >> \o Split(SubSeq(s, k + 1, Len(s)), c)

Digits == <<"0", "1", "2", "3", "4", "5", "6", "7", "8", "9">>

IsDigit(c) == \E d \in 1..10 : Digits[d] = c

DigitVal(c) == (CHOOSE d \in 1..10 : Digits[d] = c) - 1

\* number of consecutive digits of s starting at position i
RECURSIVE DigitRun(_, _)
DigitRun(s, i) ==
    IF i <= Len(s) /\ IsDigit(s[i]) THEN 1 + DigitRun(s, i + 1) ELSE 0

\* value of a sequence of digits
RECURSIVE DigitsValue(_)
DigitsValue(ds) ==
    IF ds = << >> THEN 0
    ELSE 10 * DigitsValue(SubSeq(ds, 1, Len(ds) - 1)) + DigitVal(ds[Len(ds)])

\* the thousandths denoted by the fraction digits fs (digits after the third are dropped)
FractionValue(fs) ==
    LET d(i) == IF i <= Len(fs) THEN DigitVal(fs[i]) ELSE 0
    IN  100 * d(1) + 10 * d(2) + d(3)

\* length of a leading sign
SignLen(s) == IF s # << >> /\ Head(s) \in {"-", "+"} THEN 1 ELSE 0

\* 1 when the character after the integer digits is a decimal point
DotLen(s, off, ilen) ==
    IF off + ilen + 1 <= Len(s) /\ s[off + ilen + 1] = "." THEN 1 ELSE 0

\* the literal with off sign characters, ilen integer digits, dlen points, flen fraction
\* digits: ok tells that it holds a digit, len is its length, v its value in thousandths
DecimalValue(s, off, ilen, dlen, flen) ==
    [ok  |-> ilen + flen >= 1,
     len |-> IF ilen + flen >= 1 THEN off + ilen + dlen + flen ELSE 0,
     v   |-> (IF off = 1 /\ Head(s) = "-" THEN 0 - 1 ELSE 1)
             * (1000 * DigitsValue(SubSeq(s, off + 1, off + ilen))
                + FractionValue(SubSeq(s, off + ilen + 2, off + ilen + 1 + flen)))]

DecimalAfterInt(s, off, ilen, dlen) ==
    DecimalValue(s, off, ilen, dlen,
                 IF dlen = 1 THEN DigitRun(s, off + ilen + 2) ELSE 0)

DecimalAfterSign(s, off, ilen) == DecimalAfterInt(s, off, ilen, DotLen(s, off, ilen))

DecimalSigned(s, off) == DecimalAfterSign(s, off, DigitRun(s, off + 1))

\* The longest prefix of s that is a decimal literal: [sign] digits [. digits].
\* Exponents, hexadecimal literals and Infinity are not modelled.
DecimalPrefix(s) == DecimalSigned(s, SignLen(s))

NaN == [ok |-> FALSE, v |-> 0]

WholeLiteral(t, p) ==
    IF p.ok /\ p.len = Len(t) THEN [ok |-> TRUE, v |-> p.v] ELSE NaN

NumberOfTrimmed(t) ==
    IF t = << >> THEN [ok |-> TRUE, v |-> 0] ELSE WholeLiteral(t, DecimalPrefix(t))

\* Number(string): the whole trimmed string must be a literal; "" is 0
Number(s) == NumberOfTrimmed(Trim(s))

PrefixValue(p) == IF p.ok THEN [ok |-> TRUE, v |-> p.v] ELSE NaN

\* parseFloat(string): the longest numeric prefix after leading blanks
parseFloat(s) == PrefixValue(DecimalPrefix(TrimLeft(s)))

IntegerValue(t, off, ilen) ==
    IF ilen = 0 THEN NaN
    ELSE [ok |-> TRUE,
          v  |-> (IF off = 1 /\ Head(t) = "-" THEN 0 - 1 ELSE 1)
                 * 1000 * DigitsValue(SubSeq(t, off + 1, off + ilen))]

IntegerSigned(t, off) == IntegerValue(t, off, DigitRun(t, off + 1))

IntegerPrefix(t) == IntegerSigned(t, SignLen(t))

\* parseInt(string): the longest integer prefix after leading blanks
parseInt(s) == IntegerPrefix(TrimLeft(s))

\* decimal digits of a natural number
RECURSIVE IntToDigits(_)
IntToDigits(n) ==
    IF n < 10 THEN << Digits[n + 1] >>
    ELSE IntToDigits(n \div 10) \o << Digits[(n % 10) + 1] >>

\* String.prototype.padStart(width, "0")
RECURSIVE PadStart(_, _)
PadStart(s, width) ==
    IF Len(s) >= width THEN s ELSE PadStart(<<"0">> \o s, width)

(***************************************************************************)
(* Time codec                                                              *)
(***************************************************************************)
\* minutes * 60 + seconds, 0 when a component is NaN
MinutesSeconds(minutes, seconds) ==
    IF ~minutes.ok \/ ~seconds.ok THEN 0 ELSE minutes.v * 60 + seconds.v

\* Math.round(seconds * 100) / 100, 0 when NaN
RoundedSeconds(seconds) ==
    IF ~seconds.ok THEN 0 ELSE ((seconds.v + 5) \div 10) * 10

\* parseTimeToSeconds: thousandths of a second, 0 for an unparseable string
parseTimeToSeconds(timeStr) ==
    IF Includes(timeStr, <<":">>)
    THEN MinutesSeconds(Number(Split(timeStr, ":")[1]), Number(Split(timeStr, ":")[2]))
    ELSE IF Len(Split(timeStr, ".")) = 3
    THEN MinutesSeconds(parseInt(Split(timeStr, ".")[1]),
                        parseFloat(Split(timeStr, ".")[2] \o <<".">>
                                       \o Split(timeStr, ".")[3]))
    ELSE RoundedSeconds(parseFloat(timeStr))

\* Number.prototype.toFixed(2) of a non-negative number of seconds below 100
HundredthsToFixed2(h) ==
    IntToDigits(h \div 100) \o <<".">> \o PadStart(IntToDigits(h % 100), 2)

SecondsToFixed2(ms) == HundredthsToFixed2((ms + 5) \div 10)

\* a formatTime without the padStart of the seconds
formatTimeUnpadded(seconds) ==
    IntToDigits(seconds \div 60000) \o <<":">> \o SecondsToFixed2(seconds % 60000)

\* formatTime: minutes:seconds.hundredths
formatTime(seconds) ==
    IntToDigits(seconds \div 60000) \o <<":">>
        \o PadStart(SecondsToFixed2(seconds % 60000), 5)

(***************************************************************************)
(* Percentage calculator                                                   *)
(***************************************************************************)
\* a percentage that is the ratio of the times, whatever the distance
calculateModelPercentageOfTimes(baseModelTime, distance, userTime) ==
    IF baseModelTime = 0 \/ distance = 0 \/ userTime = 0
    THEN [n |-> 0, d |-> 1]
    ELSE [n |-> 2000 * baseModelTime, d |-> userTime]

\* calculateModelPercentage: (distance / userTime) / (2000 / baseModelTime) * 100,
\* kept exact as the fraction n / d of hundredths of a percent over 5, that is
\* percent = 5 * n / (100 * d); 0 when an argument is falsy (a missing table entry
\* and a null distance are written 0).
calculateModelPercentage(baseModelTime, distance, userTime) ==
    IF baseModelTime = 0 \/ distance = 0 \/ userTime = 0
    THEN [n |-> 0, d |-> 1]
    ELSE [n |-> distance * baseModelTime, d |-> userTime]

\* Number.prototype.toFixed(2) of a percentage, in hundredths of a percent
PercentToFixed2(p) ==
    5 * (p.n \div p.d) + (10 * (p.n % p.d) + p.d) \div (2 * p.d)

(***************************************************************************)
(* Reference tables and distance table.  Their files (modelTableWORLD,     *)
(* modelTableRUSSIA, distanceTable) are required by src/index.js but are   *)
(* not among the sources; they are modelled from the specification: a      *)
(* baseline time for the 2000 m reference distance per (age category, boat *)
(* class), and a fixed list of distance labels resolved to metres.         *)
(***************************************************************************)
\* position of x in the list, 0 when absent
IndexOf(list, x) ==
    IF \E i \in 1..Len(list) : list[i] = x
    THEN CHOOSE i \in 1..Len(list) : list[i] = x
    ELSE 0

\* modelTimesWORLD[ageCategory]?.[boatClass], thousandths of a second, 0 for undefined
modelTimesWORLD(ageCategory, boatClass) ==
    LET a == IndexOf(worldAgeCategories, ageCategory)
        b == IndexOf(boatClasses, boatClass)
    IN  IF a = 0 \/ b = 0 THEN 0 ELSE 1000 * (340 + 10 * a + 5 * (b - 1))

\* modelTimesRUSSIA[ageCategory]?.[boatClass], thousandths of a second, 0 for undefined
modelTimesRUSSIA(ageCategory, boatClass) ==
    LET a == IndexOf(russiaAgeCategories, ageCategory)
        b == IndexOf(boatClasses, boatClass)
    IN  IF a = 0 \/ b = 0 THEN 0 ELSE 1000 * (310 + 10 * a + 5 * (b - 1))

distances ==
    << <<"5", "0", "0", "m">>,
       <<"1", "0", "0", "0", "m">>,
       <<"2", "0", "0", "0", "m">> >>

\* getDistance: the metres a distance label stands for
getDistance(label) == parseInt(label).v \div 1000

\* the table of a variant: modelType === worldModel ? modelTimesWORLD : modelTimesRUSSIA
BaseModelTime(modelType, ageCategory, boatClass) ==
    IF modelType = worldModel
    THEN modelTimesWORLD(ageCategory, boatClass)
    ELSE modelTimesRUSSIA(ageCategory, boatClass)

\* getModelTime / getModelTimeRU: the baseline scaled to the race distance
getModelTime(modelType, ageCategory, distance, boatClass) ==
    (BaseModelTime(modelType, ageCategory, boatClass) \div 2000) * distance

(***************************************************************************)
(* Stores                                                                  *)
(***************************************************************************)
Users == {"u1", "u2"}

\* null of a text field, and null of a numeric field
Null == <<"null">>

NullNumber == 0

\* no entry under a key of userStates / userSessions / userSettings / cache / files
NoState == [state |-> "NONE"]

NoSession == [username |-> "NONE"]

NoSettings == [language |-> "NONE"]

NoPath == <<"NONE">>

NoFile == [rows |-> "NONE"]

\* BACKUP_DIR holds no file
NoBackup == [timestamp |-> "NONE"]

\* initUserState
InitialState ==
    [state       |-> "WAITING_MODEL_TYPE",
     modelType   |-> Null,
     mode        |-> Null,
     name        |-> Null,
     ageCategory |-> Null,
     distance    |-> NullNumber,
     boatClass   |-> Null,
     time        |-> NullNumber]

\* msg.from.username || msg.from.first_name, and the name saveResult synthesizes
FromName(u) == <<"from", u>>

DefaultUsername(u) == <<"User_", u>>

\* filename of the spreadsheet: results_<username>_<chatId>.xlsx
ExcelPath(username, u) == <<"results", username, u>>

VARIABLES
    userStates,     \* Map chatId -> conversation state
    userSessions,   \* Map chatId -> session
    userSettings,   \* Map chatId -> settings
    cache,          \* Map "excel_<chatId>" -> cached createExcelFile result (a path)
    files,          \* spreadsheet files on disk, by path
    backups,        \* the latest backup file in BACKUP_DIR
    pending,        \* handlers suspended at an await, oldest first
    sent,           \* messages sent to the chat by the last step
    logged,         \* entries pushed onto the session's actions by the last step
    handled,        \* the update or completion the last step handled
    faults,         \* failures of calls and of I/O so far
    call,           \* the last call of a time or percentage function made on its own
    polling         \* isPolling, retryCount and the polling handlers suspended at an await

vars ==
    <<userStates, userSessions, userSettings, cache, files, backups, pending, sent,
      logged, handled, faults, call, polling>>

\* the stores as one value, so that handlers are functions from stores to stores
Stores ==
    [states   |-> userStates,
     sessions |-> userSessions,
     settings |-> userSettings,
     cache    |-> cache,
     files    |-> files,
     backups  |-> backups,
     pending  |-> pending,
     sent     |-> << >>,
     logged   |-> << >>]

Apply(S) ==
    /\ userStates'   = S.states
    /\ userSessions' = S.sessions
    /\ userSettings' = S.settings
    /\ cache'        = S.cache
    /\ files'        = S.files
    /\ backups'      = S.backups
    /\ pending'      = S.pending
    /\ sent'         = S.sent
    /\ logged'       = S.logged
    /\ call'         = call
    /\ polling'      = polling

\* bot.sendMessage(chatId, getMessage(chatId, key))
Send(S, key) == [S EXCEPT !.sent = Append(@, [key |-> key])]

\* A suspended handler holds the userState object it read; once the map entry of its
\* user is replaced, its writes to that object no longer reach the map.
Detach(pend, u) ==
    [k \in 1..Len(pend) |->
        IF pend[k].user = u THEN [pend[k] EXCEPT !.live = FALSE] ELSE pend[k]]

\* an initialisation that, for a user who has a state, only moves it to the first one
initUserStateKeepsFields(S, u) ==
    [S EXCEPT !.states[u] = IF @ = NoState THEN InitialState
                            ELSE [@ EXCEPT !.state = "WAITING_MODEL_TYPE"],
              !.pending = Detach(@, u)]

initUserState(S, u) ==
    [S EXCEPT !.states[u] = InitialState, !.pending = Detach(@, u)]

\* The actions array of a session is written by logUserAction and read by no handler:
\* of it the model keeps the entries pushed during the step, an empty list at creation.
initUserSession(S, u, username) ==
    [S EXCEPT !.sessions[u] = [username |-> username, results |-> << >>],
              !.logged = << >>]

initUserSettings(S, u) == [S EXCEPT !.settings[u] = [language |-> "ru"]]

logUserAction(S, u, action) ==
    IF S.sessions[u] = NoSession THEN S
    ELSE [S EXCEPT !.logged = Append(@, action)]

\* Array.prototype.find with the matcher of the vocabulary states:
\* entry === text || text.includes(entry); the index of the first such entry, 0 if none
FindMatch(list, text) ==
    LET hits == {i \in 1..Len(list) : list[i] = text \/ Includes(text, list[i])}
    IN  IF hits = {} THEN 0 ELSE CHOOSE i \in hits : \A j \in hits : i <= j

\* the age categories offered for a variant
AgeCategoriesOf(modelType) ==
    IF modelType = worldModel THEN worldAgeCategories ELSE russiaAgeCategories

(***************************************************************************)
(* Report exporter (createExcelFile)                                       *)
(***************************************************************************)
\* subject names in order of first appearance: the keys of groupedResults
RECURSIVE GroupNames(_)
GroupNames(results) ==
    IF results = << >> THEN << >>
    ELSE LET init == GroupNames(SubSeq(results, 1, Len(results) - 1))
             nm   == results[Len(results)].name
         IN  IF IndexOf(init, nm) # 0 THEN init ELSE Append(init, nm)

\* groupedResults[name]: the attributes of the first result of that name, and the
\* display times of all its results
GroupOf(results, nm) ==
    LET idx   == {i \in 1..Len(results) : results[i].name = nm}
        first == results[CHOOSE i \in idx : \A j \in idx : i <= j]
    IN  [name        |-> nm,
         distance    |-> first.distance,
         boatClass   |-> first.boatClass,
         ageCategory |-> first.ageCategory,
         modelType   |-> first.modelType,
         times       |-> [k \in 1..Cardinality(idx) |->
                            results[CHOOSE i \in idx :
                                Cardinality({j \in idx : j < i}) = k - 1].time]]

BlankCell == [shown |-> "blank", time |-> << >>, percent |-> 0]

\* a pair that shows the last attempt again where the subject has no attempt i
CellOfRepeatsLast(group, i) ==
    [shown   |-> "value",
     time    |-> group.times[IF i <= Len(group.times) THEN i ELSE Len(group.times)],
     percent |-> 0]

\* one "Время i" / "Модель i" pair of a row
CellOf(group, i) ==
    IF i <= Len(group.times)
    THEN LET baseModelTime ==
                 BaseModelTime(group.modelType, group.ageCategory, group.boatClass)
             userTime == parseTimeToSeconds(group.times[i])
         IN  IF baseModelTime # 0
             THEN [shown   |-> "value",
                   time    |-> group.times[i],
                   percent |-> PercentToFixed2(
                       calculateModelPercentage(baseModelTime, group.distance, userTime))]
             ELSE [shown |-> "empty", time |-> group.times[i], percent |-> 0]
    ELSE BlankCell

RECURSIVE SumPercent(_)
SumPercent(results) ==
    IF results = << >> THEN 0
    ELSE results[1].modelPercentage + SumPercent(Tail(results))

\* The workbook: one row per subject (name, distance, class, age, then maxResults
\* time/percentage pairs) and the statistics sheet.  The two per-subject average
\* columns are not carried.
Report(results) ==
    LET names      == GroupNames(results)
        groups     == [g \in 1..Len(names) |-> GroupOf(results, names[g])]
        maxResults == CHOOSE m \in 0..Len(results) :
                        /\ \A g \in 1..Len(groups) : Len(groups[g].times) <= m
                        /\ \E g \in 1..Len(groups) : Len(groups[g].times) = m
    IN  [rows |-> [g \in 1..Len(groups) |->
                     [name        |-> groups[g].name,
                      distance    |-> groups[g].distance,
                      boatClass   |-> groups[g].boatClass,
                      ageCategory |-> groups[g].ageCategory,
                      cells       |-> [i \in 1..maxResults |-> CellOf(groups[g], i)]]],
         athletes     |-> Len(names),
         total        |-> Len(results),
         teamAvgModel |-> (2 * SumPercent(results) + Len(results))
                              \div (2 * Len(results))]

(***************************************************************************)
(* Handlers.  Each is a function from the stores to the stores; fault      *)
(* names the call that throws during the handler, "none" when none does.   *)
(***************************************************************************)
\* a handler suspended at an await
Suspended(kind, u, ok, percentage, path, doc) ==
    [kind |-> kind, user |-> u, live |-> TRUE, ok |-> ok,
     percentage |-> percentage, path |-> path, doc |-> doc]

\* handleCancel that goes back to the first state without clearing the scratch fields
handleCancelKeepsFields(S, u) ==
    IF S.states[u] = NoState THEN S
    ELSE IF S.states[u].state = "WAITING_NEXT_ACTION"
    THEN Send([S EXCEPT !.states[u].state = "WAITING_TIME"], "enterTime")
    ELSE Send([S EXCEPT !.states[u].state = "WAITING_MODEL_TYPE"], "selectModel")

\* handleCancel that also deletes the session when it resets
handleCancelDropsSession(S, u) ==
    IF S.states[u] = NoState THEN S
    ELSE IF S.states[u].state = "WAITING_NEXT_ACTION"
    THEN Send([S EXCEPT !.states[u].state = "WAITING_TIME"], "enterTime")
    ELSE Send([initUserState(S, u) EXCEPT !.sessions[u] = NoSession], "selectModel")

\* handleCancel that also goes back to the time input from the edit of the last time
handleCancelBackFromEditing(S, u) ==
    IF S.states[u] = NoState THEN S
    ELSE IF S.states[u].state \in {"WAITING_NEXT_ACTION", "EDITING_LAST_TIME"}
    THEN Send([S EXCEPT !.states[u].state = "WAITING_TIME"], "enterTime")
    ELSE Send(initUserState(S, u), "selectModel")

\* handleCancel
handleCancel(S, u) ==
    IF S.states[u] = NoState THEN S
    ELSE IF S.states[u].state = "WAITING_NEXT_ACTION"
    THEN Send([S EXCEPT !.states[u].state = "WAITING_TIME"], "enterTime")
    ELSE Send(initUserState(S, u), "selectModel")

\* case STATES.WAITING_MODEL_TYPE
OnModelType(S, u, text) ==
    IF text = worldModel \/ text = russiaModel
    THEN Send(logUserAction(
                [S EXCEPT !.states[u].modelType = text,
                          !.states[u].state = "WAITING_MODE"],
                u, "select_model_type"), "selectMode")
    ELSE Send(S, "invalidModel")

\* allAgeCategories.some(cat => modeText.includes(cat) || getMessage(chatId, cat) === modeText)
IsAgeCategory(modeText) ==
    LET allAgeCategories == worldAgeCategories \o russiaAgeCategories
    IN  \E i \in 1..Len(allAgeCategories) :
            Includes(modeText, allAgeCategories[i]) \/ allAgeCategories[i] = modeText

IsCreateFile(modeText) ==
    \/ Includes(modeText, tokCreateRu)
    \/ Includes(modeText, tokCreateEn)
    \/ Includes(modeText, tokCreateKey)

IsSingleTime(modeText) ==
    \/ Includes(modeText, tokSingleRu)
    \/ Includes(modeText, tokSingleEn)
    \/ Includes(modeText, tokSingleKey)

\* a shortcut that rejects the age category as any other text that is no mode
OnModeAgeCategoryRejects(S, u) == Send(S, "invalidMode")

\* WAITING_MODE, "if (isAgeCategory)": redirect to the age selection
OnModeAgeCategory(S, u) ==
    Send([S EXCEPT !.states[u].state = "WAITING_AGE"], "selectAge")

\* case STATES.WAITING_MODE
OnMode(S, u, text) ==
    LET modeText == Trim(text)
    IN  IF IsAgeCategory(modeText)
        THEN OnModeAgeCategory(S, u)
        ELSE IF IsCreateFile(modeText)
        THEN Send(logUserAction(
                    [S EXCEPT !.states[u].mode = createFile,
                              !.states[u].state = "WAITING_NAME"],
                    u, "select_mode"), "enterName")
        ELSE IF IsSingleTime(modeText)
        THEN Send(logUserAction(
                    [S EXCEPT !.states[u].mode = singleTime,
                              !.states[u].state = "WAITING_AGE"],
                    u, "select_mode"), "selectAge")
        ELSE Send(S, "selectMode")

\* case STATES.WAITING_NAME
OnName(S, u, text) ==
    Send(logUserAction(
            [S EXCEPT !.states[u].name = text, !.states[u].state = "WAITING_AGE"],
            u, "enter_name"), "selectAge")

\* case STATES.WAITING_AGE
OnAge(S, u, text) ==
    LET ageCategories == AgeCategoriesOf(S.states[u].modelType)
        k == FindMatch(ageCategories, Trim(text))
    IN  IF k # 0
        THEN Send(logUserAction(
                    [S EXCEPT !.states[u].ageCategory = ageCategories[k],
                              !.states[u].state = "WAITING_DISTANCE"],
                    u, "select_age_category"), "selectDistance")
        ELSE Send(S, "invalidAge")

\* case STATES.WAITING_DISTANCE
OnDistance(S, u, text) ==
    LET k == FindMatch(distances, Trim(text))
    IN  IF k # 0
        THEN Send(logUserAction(
                    [S EXCEPT !.states[u].distance = getDistance(distances[k]),
                              !.states[u].state = "WAITING_BOAT"],
                    u, "select_distance"), "selectBoat")
        ELSE Send(S, "invalidDistance")

\* OnBoat with the scratch field assigned before the text is validated
OnBoatStoresInput(S, u, text) ==
    LET k == FindMatch(boatClasses, Trim(text))
    IN  IF k # 0
        THEN Send(logUserAction(
                    [S EXCEPT !.states[u].boatClass = boatClasses[k],
                              !.states[u].state = "WAITING_TIME"],
                    u, "select_boat"), "enterTime")
        ELSE Send([S EXCEPT !.states[u].boatClass = Trim(text)], "invalidBoat")

\* case STATES.WAITING_BOAT
OnBoat(S, u, text) ==
    LET k == FindMatch(boatClasses, Trim(text))
    IN  IF k # 0
        THEN Send(logUserAction(
                    [S EXCEPT !.states[u].boatClass = boatClasses[k],
                              !.states[u].state = "WAITING_TIME"],
                    u, "select_boat"), "enterTime")
        ELSE Send(S, "invalidBoat")

\* saveResult that creates a missing session and pushes nothing
saveResultPushesNothing(S, u, result) ==
    IF S.sessions[u] = NoSession THEN initUserSession(S, u, DefaultUsername(u)) ELSE S

\* saveResult that puts the new result in front of the earlier ones
saveResultInFront(S, u, result) ==
    LET S1 == IF S.sessions[u] = NoSession
              THEN initUserSession(S, u, DefaultUsername(u))
              ELSE S
    IN  [S1 EXCEPT !.sessions[u].results = <<
            [name            |-> result.name,
             distance        |-> result.distance,
             boatClass       |-> result.boatClass,
             ageCategory     |-> result.ageCategory,
             time            |-> formatTime(result.time),
             modelTime       |-> result.modelTime,
             modelPercentage |-> result.percentage,
             modelType       |-> result.modelType]>> \o @]

\* a saveSession that lets the failure of the write escape
saveSessionThrows(written) == written

\* saveSession: whether it returns normally, given whether writeFileSync wrote the
\* session file; the failure of the write is caught and logged inside
saveSession(written) == TRUE

\* saveResult up to saveSession: the session is created when missing and the result is
\* pushed with its display time
saveResult(S, u, result) ==
    LET S1 == IF S.sessions[u] = NoSession
              THEN initUserSession(S, u, DefaultUsername(u))
              ELSE S
    IN  [S1 EXCEPT !.sessions[u].results = Append(@,
            [name            |-> result.name,
             distance        |-> result.distance,
             boatClass       |-> result.boatClass,
             ageCategory     |-> result.ageCategory,
             time            |-> formatTime(result.time),
             modelTime       |-> result.modelTime,
             modelPercentage |-> result.percentage,
             modelType       |-> result.modelType])]

\* the "timeResult" reply with the percentage it shows
SendResult(S, percentage) ==
    [S EXCEPT !.sent = Append(@, [key |-> "timeResult", percentage |-> percentage])]

\* a catch block that resets the conversation as the catch of a failed save does
OnCalculationErrorResets(S, u) ==
    Send(initUserState(logUserAction(S, u, "error"), u), "selectModel")

\* the catch block of the calculation in WAITING_TIME
OnCalculationError(S, u) == Send(logUserAction(S, u, "error"), "modelError")

\* a single time branch that shows the result and leaves the conversation where it is
OnSingleTimeKeepsState(S, u, percentage) == SendResult(S, percentage)

\* the single time mode branch of WAITING_TIME: the result is sent, nothing is saved,
\* initUserState resets the conversation and the model type is asked for again
OnSingleTime(S, u, percentage) ==
    Send(initUserState(SendResult(S, percentage), u), "selectModel")

\* case STATES.WAITING_TIME, up to the await of saveResult.  fault "calc": getModelTime
\* throws; fault "save": saveResult throws before it changes the session; fault
\* "disk": writeFileSync throws in the saveSession that ends saveResult.
OnTime(S, u, text, fault) ==
    LET st           == S.states[u]
        totalSeconds == parseTimeToSeconds(text)
        S1           == logUserAction(S, u, "enter_time")
        modelTime    == getModelTime(st.modelType, st.ageCategory, st.distance, st.boatClass)
        baseModelTime == BaseModelTime(st.modelType, st.ageCategory, st.boatClass)
        percentage   == PercentToFixed2(
                            calculateModelPercentage(baseModelTime, st.distance, totalSeconds))
        S2           == logUserAction(S1, u, "calculate_model")
        result       == [name        |-> st.name,
                         distance    |-> st.distance,
                         boatClass   |-> st.boatClass,
                         ageCategory |-> st.ageCategory,
                         time        |-> totalSeconds,
                         modelTime   |-> modelTime,
                         percentage  |-> percentage,
                         modelType   |-> st.modelType]
        await(T, ok) == [T EXCEPT !.pending = Append(@,
                            Suspended("save", u, ok, percentage, NoPath, NoFile))]
    IN  IF totalSeconds > 0
        THEN IF fault = "calc"
             THEN OnCalculationError(S1, u)
             ELSE IF st.mode = createFile
             THEN IF fault = "save"
                  THEN await(S2, FALSE)
                  ELSE await(saveResult(S2, u, result), saveSession(fault # "disk"))
             ELSE OnSingleTime(S2, u, percentage)
        ELSE Send(S, "invalidTime")

\* createExcelFile up to its first await.  A cached result is returned as it is; with
\* no session or no results the result is null and the caller sends "noDataForExcel";
\* otherwise the workbook is built from the session and writeFile is awaited.
createExcelFile(S, u) ==
    IF S.cache[u] # NoPath
    THEN [S EXCEPT !.pending = Append(@,
            Suspended("files", u, TRUE, 0, S.cache[u], NoFile))]
    ELSE IF S.sessions[u] = NoSession \/ S.sessions[u].results = << >>
    THEN Send(S, "noDataForExcel")
    ELSE [S EXCEPT !.pending = Append(@,
            Suspended("write", u, TRUE, 0,
                      ExcelPath(S.sessions[u].username, u),
                      Report(S.sessions[u].results)))]

\* a "new name" branch that only goes back to WAITING_NAME, keeping every field
OnNewNameKeepsFields(S, u) ==
    Send([S EXCEPT !.states[u].state = "WAITING_NAME"], "enterName")

\* WAITING_NEXT_ACTION, "Новое имя": a fresh state that carries model type and mode
OnNewName(S, u) ==
    LET st == S.states[u]
    IN  Send([initUserState(S, u) EXCEPT
                  !.states[u].modelType = st.modelType,
                  !.states[u].mode = st.mode,
                  !.states[u].state = "WAITING_NAME"], "enterName")

\* case STATES.WAITING_NEXT_ACTION
OnNextAction(S, u, text) ==
    LET st == S.states[u]
    IN  IF text = enterMoreTime
        THEN Send([S EXCEPT !.states[u].state = "WAITING_TIME"], "enterTime")
        ELSE IF text = newName
        THEN OnNewName(S, u)
        ELSE IF text = finishAndGetExcel
        THEN createExcelFile(S, u)
        ELSE IF text = editLastTime
        THEN IF S.sessions[u] # NoSession /\ S.sessions[u].results # << >>
             THEN Send([S EXCEPT !.states[u].state = "EDITING_LAST_TIME"], "currentTime")
             ELSE Send(S, "noResults")
        ELSE Send(S, "invalidAction")

\* the edit that rewrites the display time and keeps the stored percentage
OnEditingLastTimeKeepsPercentage(S, u, text) ==
    LET session == S.sessions[u]
    IN  IF session # NoSession /\ session.results # << >>
        THEN IF parseTimeToSeconds(text) > 0
             THEN Send(Send(
                    [S EXCEPT !.sessions[u].results[Len(session.results)].time =
                                  formatTime(parseTimeToSeconds(text)),
                              !.states[u].state = "WAITING_NEXT_ACTION"],
                    "timeUpdated"), "selectAction")
             ELSE Send(S, "invalidTime")
        ELSE Send(S, "noResults")

\* case STATES.EDITING_LAST_TIME
OnEditingLastTime(S, u, text) ==
    LET session == S.sessions[u]
    IN  IF session # NoSession /\ session.results # << >>
        THEN LET n              == Len(session.results)
                 lastResult     == session.results[n]
                 newTimeSeconds == parseTimeToSeconds(text)
                 baseModelTime  == BaseModelTime(lastResult.modelType,
                                       lastResult.ageCategory, lastResult.boatClass)
                 newPercentage  ==
                     IF baseModelTime # 0
                     THEN PercentToFixed2(calculateModelPercentage(
                              baseModelTime, lastResult.distance, newTimeSeconds))
                     ELSE 0
             IN  IF newTimeSeconds > 0
                 THEN Send(Send(
                        [S EXCEPT !.sessions[u].results[n].time = formatTime(newTimeSeconds),
                                  !.sessions[u].results[n].modelPercentage = newPercentage,
                                  !.states[u].state = "WAITING_NEXT_ACTION"],
                        "timeUpdated"), "selectAction")
                 ELSE Send(S, "invalidTime")
        ELSE Send(S, "noResults")

\* bot.on("message"): the handler up to its first await
OnMessage(S0, u, text, fault) ==
    IF text = cancelText THEN handleCancel(S0, u)
    ELSE LET S     == IF S0.states[u] = NoState THEN initUserState(S0, u) ELSE S0
             state == S.states[u].state
         IN  CASE state = "WAITING_MODEL_TYPE"  -> OnModelType(S, u, text)
               [] state = "WAITING_MODE"        -> OnMode(S, u, text)
               [] state = "WAITING_NAME"        -> OnName(S, u, text)
               [] state = "WAITING_AGE"         -> OnAge(S, u, text)
               [] state = "WAITING_DISTANCE"    -> OnDistance(S, u, text)
               [] state = "WAITING_BOAT"        -> OnBoat(S, u, text)
               [] state = "WAITING_TIME"        -> OnTime(S, u, text, fault)
               [] state = "WAITING_NEXT_ACTION" -> OnNextAction(S, u, text)
               [] state = "EDITING_LAST_TIME"   -> OnEditingLastTime(S, u, text)
               [] OTHER                         -> S

\* a start handler that keeps the session of a user who already has one
OnStartKeepsSession(S, u) ==
    Send(logUserAction(
            initUserSettings(
                IF S.sessions[u] = NoSession
                THEN initUserSession(initUserState(S, u), u, FromName(u))
                ELSE initUserState(S, u), u),
            u, "start_bot"), "selectModel")

\* bot.onText(/\/start/)
OnStart(S, u) ==
    Send(logUserAction(
            initUserSettings(initUserSession(initUserState(S, u), u, FromName(u)), u),
            u, "start_bot"), "selectModel")

\* Array.from(map.entries()) written as JSON: the [key, value] pairs of the keys the
\* map holds.  The values are strings, numbers, null and objects and arrays of these,
\* which JSON keeps as they are; none marks a key the map does not hold.
Entries(map, none) == {<<u, map[u]>> : u \in {v \in Users : map[v] # none}}

\* map.clear() followed by entries.forEach(([key, value]) => map.set(key, value))
FromEntries(entries, none) ==
    [u \in Users |->
        IF \E e \in entries : e[1] = u
        THEN (CHOOSE e \in entries : e[1] = u)[2]
        ELSE none]

\* entries.forEach(([key, value]) => map.set(key, value)) on a map that was not cleared
IntoMap(map, entries) ==
    [u \in Users |->
        IF \E e \in entries : e[1] = u
        THEN (CHOOSE e \in entries : e[1] = u)[2]
        ELSE map[u]]

\* createBackup up to "await fs.promises.writeFile": BACKUP_DIR exists, and the three
\* maps are serialised as they are when the handler runs
createBackup(S, u) ==
    [S EXCEPT !.pending = Append(@,
        Suspended("backup", u, TRUE, 0, NoPath,
                  [timestamp    |-> "now",
                   userSessions |-> Entries(S.sessions, NoSession),
                   userStates   |-> Entries(S.states, NoState),
                   userSettings |-> Entries(S.settings, NoSettings)]))]

\* bot.onText(/\/restore/) up to "await fs.promises.readdir(BACKUP_DIR)"
OnRestore(S, u) ==
    [S EXCEPT !.pending = Append(@, Suspended("restore", u, TRUE, 0, NoPath, NoFile))]

\* a restoreFromBackup that fills the maps from the file without clearing them
restoreFromBackupMerges(S, backupData) ==
    [S EXCEPT !.sessions = IntoMap(@, backupData.userSessions),
              !.states   = IntoMap(@, backupData.userStates),
              !.settings = IntoMap(@, backupData.userSettings),
              !.pending  = [k \in 1..Len(@) |-> [@[k] EXCEPT !.live = FALSE]]]

\* restoreFromBackup after the file was read: the three maps are cleared and filled
\* from the file; every suspended handler is left with an object no map holds
restoreFromBackup(S, backupData) ==
    [S EXCEPT !.sessions = FromEntries(backupData.userSessions, NoSession),
              !.states   = FromEntries(backupData.userStates, NoState),
              !.settings = FromEntries(backupData.userSettings, NoSettings),
              !.pending  = [k \in 1..Len(@) |-> [@[k] EXCEPT !.live = FALSE]]]

\* restoreFromBackup on a file that is not a snapshot: when the file cannot be read
\* or parsed the catch returns false at once; when it parses but holds no userSessions
\* listing, the three maps have been cleared when forEach throws on the missing listing
restoreFromBackupFailed(S, parsed) ==
    IF ~parsed THEN S
    ELSE [S EXCEPT !.sessions = [u \in Users |-> NoSession],
                   !.states   = [u \in Users |-> NoState],
                   !.settings = [u \in Users |-> NoSettings],
                   !.pending  = [k \in 1..Len(@) |-> [@[k] EXCEPT !.live = FALSE]]]

\* pending without its k-th element
Without(pend, k) == SubSeq(pend, 1, k - 1) \o SubSeq(pend, k + 1, Len(pend))

\* the message handler after "await saveResult(...)"
AfterSave(S, k) ==
    LET c  == S.pending[k]
        u  == c.user
        S1 == [S EXCEPT !.pending = Without(@, k)]
    IN  IF c.ok
        THEN Send(IF c.live
                  THEN [SendResult(S1, c.percentage)
                            EXCEPT !.states[u].state = "WAITING_NEXT_ACTION"]
                  ELSE SendResult(S1, c.percentage),
                  "selectAction")
        ELSE Send(initUserState(Send(SendResult(S1, c.percentage), "notSaved"), u),
                  "selectModel")

\* the message handler after "await createExcelFile(chatId)" returned a file: the
\* session is looked up again and sendDocument is started on the file's path
AfterFiles(S, k) ==
    LET c == S.pending[k]
        u == c.user
    IN  IF S.sessions[u] = NoSession
        THEN Send([S EXCEPT !.pending = Without(@, k)], "excelError")
        ELSE [S EXCEPT !.pending[k].kind = "send",
                       !.pending[k].doc  = S.files[c.path]]

\* createExcelFile after "await workbook.xlsx.writeFile(filePath)": the result is
\* cached and returned, or the write error is rethrown to the handler
AfterWrite(S, k, ok) ==
    LET c == S.pending[k]
    IN  IF ok
        THEN AfterFiles([S EXCEPT !.files[c.path] = c.doc,
                                  !.cache[c.user] = c.path], k)
        ELSE Send([S EXCEPT !.pending = Without(@, k)], "excelError")

\* a delivery handler that tears the session down also when the delivery failed
AfterSendTearsDownAnyway(S, k, ok) ==
    LET c  == S.pending[k]
        u  == c.user
        S1 == [S EXCEPT !.pending = Without(@, k)]
    IN  IF ok /\ c.doc # NoFile
        THEN initUserState(
                [S1 EXCEPT !.sent = <<[key |-> "document", doc |-> c.doc],
                                      [key |-> "excelCreated"]>>,
                           !.logged = << >>,
                           !.files[c.path] = NoFile,
                           !.sessions[u] = NoSession], u)
        ELSE Send(initUserState([S1 EXCEPT !.sessions[u] = NoSession], u), "excelError")

\* the message handler after sendDocument and the confirmation message: the file is
\* unlinked, the session and the state are deleted and a fresh state is stored;
\* when the delivery fails the handler only reports the error
AfterSend(S, k, ok) ==
    LET c  == S.pending[k]
        u  == c.user
        S1 == [S EXCEPT !.pending = Without(@, k)]
    IN  IF ok /\ c.doc # NoFile
        THEN initUserState(
                [S1 EXCEPT !.sent = <<[key |-> "document", doc |-> c.doc],
                                      [key |-> "excelCreated"]>>,
                           !.logged = << >>,
                           !.files[c.path] = NoFile,
                           !.sessions[u] = NoSession], u)
        ELSE Send(S1, "excelError")

\* bot.onText(/\/backup/) after "await createBackup()": the file is in BACKUP_DIR
AfterBackup(S, k) ==
    Send([S EXCEPT !.backups = S.pending[k].doc,
                   !.pending = Without(@, k)], "backupCreated")

\* bot.onText(/\/restore/) after the directory was listed: the newest file, if there
\* is one, is restored
AfterRestore(S, k) ==
    LET S1 == [S EXCEPT !.pending = Without(@, k)]
    IN  IF S.backups = NoBackup
        THEN Send(S1, "noBackups")
        ELSE Send(restoreFromBackup(S1, S.backups), "dataRestored")

\* bot.onText(/\/restore/) after the directory was listed, when restoreFromBackup
\* returns false on the newest file
AfterRestoreFailed(S, k, parsed) ==
    Send(restoreFromBackupFailed([S EXCEPT !.pending = Without(@, k)], parsed),
         "restoreError")

(***************************************************************************)
(* Environment: the texts a user sends, and the bounds of the exploration  *)
(***************************************************************************)
\* the most attempts recorded for one subject of a session
MaxResults == 2

MaxPending == 1

MaxFaults == 1

nameA == <<"A", "n", "n", "a">>

nameB == <<"B", "o", "r", "i", "s">>

ageMen == worldAgeCategories[5]

ageWomen == worldAgeCategories[6]

dist1000 == distances[2]

dist2000 == distances[3]

boatSingleLight == boatClasses[2]

timeColon == <<"6", ":", "4", "0", ".", "0", "2", "2">>

timeDots == <<"6", ".", "4", "0", ".", "0", "2">>

timeSlow == <<"8", ":", "0", "0">>

timeZero == <<"0">>

timeNegative == <<"-", "5">>

junkText == <<"n", "o", "t", " ", "a", " ", "t", "i", "m", "e">>

startText == <<"/", "s", "t", "a", "r", "t">>

backupText == <<"/", "b", "a", "c", "k", "u", "p">>

restoreText == <<"/", "r", "e", "s", "t", "o", "r", "e">>

\* no function has been called on its own yet
NoCall == [fn |-> "none", timeStr |-> << >>, seconds |-> 0, args |-> << >>,
           percent |-> [n |-> 0, d |-> 1]]

\* the users that send messages
Active == {"u1"}

\* the texts the users send
Texts ==
    {worldModel, russiaModel, singleTime, createFile, ageMen, dist2000,
     boatSingleLight, timeColon, timeDots, timeZero, timeNegative, junkText, nameA,
     enterMoreTime, newName, finishAndGetExcel, editLastTime}

\* the texts sent to a handler state: entries of its keyboard, texts it rejects and,
\* in WAITING_MODE, an age category
InputsOf(state) ==
    CASE state = "WAITING_MODEL_TYPE"  -> {worldModel, junkText}
      [] state = "WAITING_MODE"        -> {createFile, singleTime, ageMen, junkText}
      [] state = "WAITING_NAME"        -> {nameA}
      [] state = "WAITING_AGE"         -> {ageMen, junkText}
      [] state = "WAITING_DISTANCE"    -> {dist2000, junkText}
      [] state = "WAITING_BOAT"        -> {boatSingleLight, junkText}
      [] state = "WAITING_TIME"        ->
            {timeColon, timeDots, timeZero, timeNegative, junkText}
      [] state = "WAITING_NEXT_ACTION" ->
            {enterMoreTime, newName, finishAndGetExcel, editLastTime, junkText}
      [] state = "EDITING_LAST_TIME"   ->
            {timeColon, timeDots, timeZero, timeNegative, junkText}

\* the texts of a user who records attempts with different attributes and answers
\* every prompt with an entry of its keyboard
WideInputsOf(state) ==
    CASE state = "WAITING_MODEL_TYPE"  -> {worldModel}
      [] state = "WAITING_MODE"        -> {createFile}
      [] state = "WAITING_NAME"        -> {nameA}
      [] state = "WAITING_AGE"         -> {ageMen, ageWomen}
      [] state = "WAITING_DISTANCE"    -> {dist1000, dist2000}
      [] state = "WAITING_BOAT"        -> {boatSingleLight}
      [] state = "WAITING_TIME"        -> {timeDots}
      [] state = "WAITING_NEXT_ACTION" ->
            {enterMoreTime, newName, finishAndGetExcel, editLastTime}
      [] state = "EDITING_LAST_TIME"   -> {timeColon}

\* the texts of a user who records the attempts of a team of two subjects
TeamInputsOf(state) ==
    CASE state = "WAITING_MODEL_TYPE"  -> {worldModel}
      [] state = "WAITING_MODE"        -> {createFile}
      [] state = "WAITING_NAME"        -> {nameA, nameB}
      [] state = "WAITING_AGE"         -> {ageMen}
      [] state = "WAITING_DISTANCE"    -> {dist2000}
      [] state = "WAITING_BOAT"        -> {boatSingleLight}
      [] state = "WAITING_TIME"        -> {timeColon, timeSlow}
      [] state = "WAITING_NEXT_ACTION" -> {enterMoreTime, newName, finishAndGetExcel}
      [] state = "EDITING_LAST_TIME"   -> {}

\* the texts of the full walk at the point where the conversation of u stands: a
\* variant, accumulate mode, a name, an age, a distance, a boat, a valid time,
\* repeat-entry after the first Result and export after the second
WalkInputsOf(u) ==
    LET state == IF userStates[u] = NoState THEN "WAITING_MODEL_TYPE"
                 ELSE userStates[u].state
        n     == IF userSessions[u] = NoSession THEN 0
                 ELSE Len(userSessions[u].results)
    IN  CASE state = "WAITING_MODEL_TYPE"  -> {worldModel, russiaModel}
          [] state = "WAITING_MODE"        -> {createFile}
          [] state = "WAITING_NAME"        -> {nameA}
          [] state = "WAITING_AGE"         -> {ageMen, ageWomen}
          [] state = "WAITING_DISTANCE"    -> {dist1000, dist2000}
          [] state = "WAITING_BOAT"        -> {boatSingleLight}
          [] state = "WAITING_TIME"        -> {timeColon, timeDots}
          [] state = "WAITING_NEXT_ACTION" ->
                IF n < 2 THEN {enterMoreTime} ELSE {finishAndGetExcel}
          [] state = "EDITING_LAST_TIME"   -> {}

\* a text with extra characters around a keyboard entry
Padded(entry) == <<" ">> \o entry \o <<" ", "!">>

\* the texts of a user whose client sends keyboard entries as they are or with extra
\* characters around them
MatchInputsOf(state) ==
    CASE state = "WAITING_MODEL_TYPE"  -> {worldModel, russiaModel, Padded(worldModel)}
      [] state = "WAITING_MODE"        -> {createFile, singleTime, Padded(createFile)}
      [] state = "WAITING_NAME"        -> {nameA}
      [] state = "WAITING_AGE"         -> {ageMen, ageWomen, Padded(ageMen)}
      [] state = "WAITING_DISTANCE"    -> {dist1000, dist2000, Padded(dist2000)}
      [] state = "WAITING_BOAT"        -> {boatSingleLight, Padded(boatClasses[1])}
      [] state = "WAITING_TIME"        -> {timeDots}
      [] state = "WAITING_NEXT_ACTION" ->
            {enterMoreTime, newName, editLastTime, Padded(enterMoreTime)}
      [] state = "EDITING_LAST_TIME"   -> {timeColon}

\* the texts of a user who answers every prompt with an entry of its keyboard up to
\* the boat class
OpsInputsOf(state) ==
    CASE state = "WAITING_MODEL_TYPE"  -> {worldModel}
      [] state = "WAITING_MODE"        -> {createFile}
      [] state = "WAITING_NAME"        -> {nameA}
      [] state = "WAITING_AGE"         -> {ageMen}
      [] state = "WAITING_DISTANCE"    -> {dist2000}
      [] state = "WAITING_BOAT"        -> {boatSingleLight}
      [] OTHER                         -> {}

Paths == {ExcelPath(FromName(u), u) : u \in Users}
            \cup {ExcelPath(DefaultUsername(u), u) : u \in Users}

WithinBounds(S) ==
    /\ Len(S.pending) <= MaxPending
    /\ \A u \in Users :
          S.sessions[u] # NoSession =>
              \A i \in 1..Len(S.sessions[u].results) :
                  Cardinality({j \in 1..Len(S.sessions[u].results) :
                                 S.sessions[u].results[j].name
                                     = S.sessions[u].results[i].name}) <= MaxResults

\* what a step handled: an update (start, cancel, message) with its text and the call
\* that failed in it, or the completion of an await
Handled(kind, u, text, fault) == [kind |-> kind, user |-> u, text |-> text, fault |-> fault]

\* the state the message handler dispatches on
HandlerState(u) ==
    IF userStates[u] = NoState THEN "WAITING_MODEL_TYPE" ELSE userStates[u].state

IsMicrotask(c) == c.kind \in {"save", "files"}

(***************************************************************************)
(* Polling: isPolling and retryCount, the library's polling loop, and the   *)
(* polling handlers suspended at an await.  Timers and network calls        *)
(* complete in any order.                                                   *)
(***************************************************************************)
MAX_RETRIES == 5

\* milliseconds
BASE_DELAY == 1000

\* polling_error handlers and starts suspended at the same time
MaxHandlers == 2

\* calls of restartPolling followed
MaxRestarts == 6

\* the awaits a polling handler can be suspended at: the backoff timer, bot.stopPolling(),
\* the timer between stop and start, bot.startPolling(); "init" is the
\* bot.startPolling() of initializeBot
Awaits == {"delay", "stopping", "restartDelay", "starting", "init"}

Suspend(P, at) == [P EXCEPT !.awaiting[at] = @ + 1]

Resume(P, at) == [P EXCEPT !.awaiting[at] = @ - 1]

Suspended409(P) == P.awaiting["delay"] + P.awaiting["stopping"]
                       + P.awaiting["restartDelay"] + P.awaiting["starting"]

\* initializeBot up to its second await: stopPolling returns at once (isPolling is
\* false), startPolling sets isPolling and waits for bot.startPolling()
initializeBot ==
    [isPolling  |-> TRUE,
     retryCount |-> 0,
     running    |-> TRUE,       \* the library's polling loop is requesting updates
     rival      |-> TRUE,       \* another process polls with the same token
     exited     |-> FALSE,      \* process.exit(1) was called
     awaiting   |-> [a \in Awaits |-> IF a = "init" THEN 1 ELSE 0],
     delay      |-> 0,          \* the delay the last conflict waits, 0 before the first
     restarts   |-> 0,          \* calls of restartPolling so far
     event      |-> "none"]     \* what the last step handled

\* process.exit(1)
Exit(P) == [P EXCEPT !.exited = TRUE, !.running = FALSE]

\* the catch of the polling_error handler around the delay and restartPolling
RestartFailed(P) == IF P.retryCount >= MAX_RETRIES THEN Exit(P) ELSE P

\* bot.on("polling_error") with status 409, up to its first await
OnPollingConflict(P) ==
    IF P.retryCount < MAX_RETRIES
    THEN Suspend([P EXCEPT !.delay = BASE_DELAY * 2 ^ P.retryCount,
                           !.retryCount = @ + 1], "delay")
    ELSE Exit([P EXCEPT !.isPolling = FALSE])

\* bot.on("polling_success")
OnPollingSuccess(P) ==
    [P EXCEPT !.retryCount = 0, !.delay = 0]

\* restartPolling up to the first await that suspends it: stopPolling returns when
\* isPolling is false, otherwise it waits for bot.stopPolling()
restartPolling(P) ==
    LET P1 == [Resume(P, "delay") EXCEPT !.restarts = @ + 1]
    IN  IF ~P1.isPolling THEN Suspend(P1, "restartDelay")
        ELSE Suspend([P1 EXCEPT !.running = FALSE], "stopping")

\* stopPolling after bot.stopPolling() settled
stopPolling(P, resolved) ==
    IF resolved THEN Suspend([Resume(P, "stopping") EXCEPT !.isPolling = FALSE],
                             "restartDelay")
    ELSE RestartFailed(Resume(P, "stopping"))

\* startPolling up to its await, after RESTART_DELAY
startPolling(P) ==
    IF P.isPolling THEN Resume(P, "restartDelay")
    ELSE Suspend([Resume(P, "restartDelay") EXCEPT !.isPolling = TRUE,
                                                     !.running = TRUE], "starting")

\* startPolling after bot.startPolling() settled; the start of initializeBot exits
\* the process when it fails
startPollingSettled(P, at, resolved) ==
    IF resolved THEN [Resume(P, at) EXCEPT !.retryCount = 0]
    ELSE LET P1 == [Resume(P, at) EXCEPT !.isPolling = FALSE, !.running = FALSE]
         IN  IF at = "init" THEN Exit(P1) ELSE RestartFailed(P1)

(***************************************************************************)
(* Actions                                                                 *)
(***************************************************************************)
Init ==
    /\ userStates   = [u \in Users |-> NoState]
    /\ userSessions = [u \in Users |-> NoSession]
    /\ userSettings = [u \in Users |-> NoSettings]
    /\ cache        = [u \in Users |-> NoPath]
    /\ files        = [p \in Paths |-> NoFile]
    /\ backups      = NoBackup
    /\ pending      = << >>
    /\ sent         = << >>
    /\ logged       = << >>
    /\ handled      = Handled("none", "none", << >>, "none")
    /\ faults       = 0
    /\ call         = NoCall
    /\ polling      = initializeBot

\* a "/start" message: the message handler sees the text first, then the command handler runs
Start(u) ==
    /\ WithinBounds(OnStart(OnMessage(Stores, u, startText, "none"), u))
    /\ Apply(OnStart(OnMessage(Stores, u, startText, "none"), u))
    /\ handled' = Handled("start", u, startText, "none")
    /\ UNCHANGED faults

\* a "Отмена" message
Cancel(u) ==
    /\ Apply(OnMessage(Stores, u, cancelText, "none"))
    /\ handled' = Handled("cancel", u, cancelText, "none")
    /\ UNCHANGED faults

\* any other text message, handled up to the handler's first await
Message(u, text) ==
    /\ WithinBounds(OnMessage(Stores, u, text, "none"))
    /\ Apply(OnMessage(Stores, u, text, "none"))
    /\ handled' = Handled("message", u, text, "none")
    /\ UNCHANGED faults

\* a valid time entry during which getModelTime ("calc"), saveResult ("save") or the
\* write of the session file ("disk") throws
MessageFault(u, text, fault) ==
    /\ HandlerState(u) = "WAITING_TIME"
    /\ parseTimeToSeconds(text) > 0
    /\ fault \in {"save", "disk"} => userStates[u].mode = createFile
    /\ faults < MaxFaults
    /\ WithinBounds(OnMessage(Stores, u, text, fault))
    /\ Apply(OnMessage(Stores, u, text, fault))
    /\ handled' = Handled("message", u, text, fault)
    /\ faults' = faults + 1

\* the promise of saveResult settles: promise reactions run oldest first
ResumeSave(k) ==
    /\ pending[k].kind = "save"
    /\ \A j \in 1..(k - 1) : ~IsMicrotask(pending[j])
    /\ Apply(AfterSave(Stores, k))
    /\ handled' = Handled("saved", pending[k].user, << >>,
                           IF pending[k].ok THEN "none" ELSE "save")
    /\ UNCHANGED faults

\* the promise of createExcelFile settles with the cached result
ResumeFiles(k) ==
    /\ pending[k].kind = "files"
    /\ \A j \in 1..(k - 1) : ~IsMicrotask(pending[j])
    /\ Apply(AfterFiles(Stores, k))
    /\ handled' = Handled("files", pending[k].user, << >>, "none")
    /\ UNCHANGED faults

\* writeFile completes or fails; I/O callbacks run only when no promise reaction is queued
WriteDone(k, ok) ==
    /\ pending[k].kind = "write"
    /\ \A j \in 1..Len(pending) : ~IsMicrotask(pending[j])
    /\ ~ok => faults < MaxFaults
    /\ Apply(AfterWrite(Stores, k, ok))
    /\ handled' = Handled("written", pending[k].user, << >>,
                           IF ok THEN "none" ELSE "write")
    /\ faults' = IF ok THEN faults ELSE faults + 1

\* sendDocument and the confirmation message complete, or one of them fails
SendDone(k, ok) ==
    /\ pending[k].kind = "send"
    /\ \A j \in 1..Len(pending) : ~IsMicrotask(pending[j])
    /\ ~ok => faults < MaxFaults
    /\ Apply(AfterSend(Stores, k, ok))
    /\ handled' = Handled("delivered", pending[k].user, << >>,
                           IF ok THEN "none" ELSE "send")
    /\ faults' = IF ok THEN faults ELSE faults + 1

\* a "/backup" message: the message handler sees the text first, then the command
\* handler runs up to the write of the backup file
Backup(u) ==
    /\ WithinBounds(createBackup(OnMessage(Stores, u, backupText, "none"), u))
    /\ Apply(createBackup(OnMessage(Stores, u, backupText, "none"), u))
    /\ handled' = Handled("backup", u, backupText, "none")
    /\ UNCHANGED faults

\* the backup file has been written
BackupDone(k) ==
    /\ pending[k].kind = "backup"
    /\ \A j \in 1..Len(pending) : ~IsMicrotask(pending[j])
    /\ Apply(AfterBackup(Stores, k))
    /\ handled' = Handled("backedup", pending[k].user, << >>, "none")
    /\ UNCHANGED faults

\* a "/restore" message: the message handler sees the text first, then the command
\* handler runs up to the listing of BACKUP_DIR
Restore(u) ==
    /\ WithinBounds(OnRestore(OnMessage(Stores, u, restoreText, "none"), u))
    /\ Apply(OnRestore(OnMessage(Stores, u, restoreText, "none"), u))
    /\ handled' = Handled("restore", u, restoreText, "none")
    /\ UNCHANGED faults

\* the directory has been listed and the newest backup file read
RestoreDone(k) ==
    /\ pending[k].kind = "restore"
    /\ \A j \in 1..Len(pending) : ~IsMicrotask(pending[j])
    /\ Apply(AfterRestore(Stores, k))
    /\ handled' = Handled("restored", pending[k].user, << >>, "none")
    /\ UNCHANGED faults

\* the directory has been listed and its newest file is not a snapshot written by
\* createBackup: it cannot be read or parsed, or it parses without the listings
RestoreFailed(k, parsed) ==
    /\ pending[k].kind = "restore"
    /\ \A j \in 1..Len(pending) : ~IsMicrotask(pending[j])
    /\ faults < MaxFaults
    /\ Apply(AfterRestoreFailed(Stores, k, parsed))
    /\ handled' = Handled("restorefailed", pending[k].user, << >>,
                           IF parsed THEN "listing" ELSE "read")
    /\ faults' = faults + 1

\* CACHE_TTL elapses for a cached result
CacheExpires(u) ==
    /\ cache[u] # NoPath
    /\ cache' = [cache EXCEPT ![u] = NoPath]
    /\ sent' = << >>
    /\ logged' = << >>
    /\ handled' = Handled("expiry", u, << >>, "none")
    /\ UNCHANGED <<userStates, userSessions, userSettings, files, backups, pending,
                   faults, call, polling>>

Next ==
    \/ \E u \in Active : Start(u)
    \/ \E u \in Active : Cancel(u)
    \/ \E u \in Active, text \in Texts :
            text \in InputsOf(HandlerState(u)) /\ Message(u, text)
    \/ \E u \in Active, text \in Texts, fault \in {"calc", "save"} :
            text \in InputsOf(HandlerState(u)) /\ MessageFault(u, text, fault)
    \/ \E k \in 1..Len(pending) : ResumeSave(k)
    \/ \E k \in 1..Len(pending) : ResumeFiles(k)
    \/ \E k \in 1..Len(pending), ok \in BOOLEAN : WriteDone(k, ok)
    \/ \E k \in 1..Len(pending), ok \in BOOLEAN : SendDone(k, ok)
    \/ \E u \in Active : CacheExpires(u)

Spec == Init /\ [][Next]_vars

\* a user who sends the next message after the reply to the last one, no call failing
\* but the write of the session file
WideNext ==
    \/ \E u \in Active :
          \E text \in WideInputsOf(HandlerState(u)) :
              pending = << >> /\ Message(u, text)
    \/ \E u \in Active :
          \E text \in WideInputsOf(HandlerState(u)) :
              pending = << >> /\ MessageFault(u, text, "disk")
    \/ \E k \in 1..Len(pending) : ResumeSave(k)
    \/ \E k \in 1..Len(pending) : ResumeFiles(k)
    \/ \E k \in 1..Len(pending) : WriteDone(k, TRUE)
    \/ \E k \in 1..Len(pending) : SendDone(k, TRUE)

WideSpec == Init /\ [][WideNext]_vars

\* a user who records a team, one message after the reply to the other, no call failing
TeamNext ==
    \/ \E u \in Active :
          \E text \in TeamInputsOf(HandlerState(u)) :
              pending = << >> /\ Message(u, text)
    \/ \E k \in 1..Len(pending) : ResumeSave(k)
    \/ \E k \in 1..Len(pending) : ResumeFiles(k)
    \/ \E k \in 1..Len(pending) : WriteDone(k, TRUE)
    \/ \E k \in 1..Len(pending) : SendDone(k, TRUE)

TeamSpec == Init /\ [][TeamNext]_vars

\* two users of whom the first walks up to the time prompt and takes and restores
\* backups, while the second only sends /start
OpsNext ==
    \/ \E u \in Users : Start(u)
    \/ \E u \in Active :
          \E text \in OpsInputsOf(HandlerState(u)) : Message(u, text)
    \/ \E u \in Active : Backup(u)
    \/ \E k \in 1..Len(pending) : BackupDone(k)
    \/ \E u \in Active : Restore(u)
    \/ \E k \in 1..Len(pending) : RestoreDone(k)
    \/ \E k \in 1..Len(pending), parsed \in BOOLEAN : RestoreFailed(k, parsed)

OpsSpec == Init /\ [][OpsNext]_vars

\* a user who sends the next text after the reply to the last one, no call failing
MatchNext ==
    \/ \E u \in Active :
          \E text \in MatchInputsOf(HandlerState(u)) :
              pending = << >> /\ Message(u, text)
    \/ \E k \in 1..Len(pending) : ResumeSave(k)

MatchSpec == Init /\ [][MatchNext]_vars

\* a user who does the full walk, again and again: /start when no session exists,
\* then the texts of the walk, each sent after the reply to the last one; no call
\* fails, and the cached export result may expire at any time
WalkNext ==
    \/ \E u \in Active :
          /\ userSessions[u] = NoSession
          /\ pending = << >>
          /\ Start(u)
    \/ \E u \in Active :
          \E text \in WalkInputsOf(u) :
              /\ userSessions[u] # NoSession
              /\ pending = << >>
              /\ Message(u, text)
    \/ \E k \in 1..Len(pending) : ResumeSave(k)
    \/ \E k \in 1..Len(pending) : ResumeFiles(k)
    \/ \E k \in 1..Len(pending) : WriteDone(k, TRUE)
    \/ \E k \in 1..Len(pending) : SendDone(k, TRUE)
    \/ \E u \in Active : CacheExpires(u)

WalkSpec == Init /\ [][WalkNext]_vars

(***************************************************************************)
(* The time and percentage functions called on their own                   *)
(***************************************************************************)
\* the strings handed to parseTimeToSeconds: the three shapes, well formed and not
TimeStrings ==
    {timeColon, timeDots, timeZero, timeNegative, junkText,
     <<"4", "5", ".", "5", "5">>,
     <<"7", ":", "4", "5", ".", "5", "5">>,
     <<"7", ".", "4", "5", ".", "5", "5">>,
     <<"7", ":", "0", "5", ".", "3">>,
     <<"0", ":", "4", "5">>,
     <<"1", "2", "5">>,
     <<"4", "5", ".", "5", "5", "5">>,
     <<"4", "5", ".", "5", "5", "4">>,
     <<"7", ".", "4", "5", ".", "5", "5", "5">>,
     <<"7", ":">>,
     <<"4", "5", "a", "b", "c">>,
     <<"7", ".", "4", "x", ".", "5", "5">>,
     <<"7", ".", "x", "x", ".", "5", "5">>,
     <<"x", ".", "4", "5", ".", "5", "5">>,
     <<"7", ":", "4", "x">>,
     <<"a", ":", "3", "0">>,
     <<"1", ".", "2", ".", "3", ".", "4">>}

\* the largest elapsed time, in hundredths of a second, of the dense range formatted
MaxHundredths == 250

\* the elapsed times handed to formatTime, in hundredths of a second: every value of
\* the first seconds, and values around ten seconds, one minute, ten minutes, an hour
ElapsedTimes ==
    (0..MaxHundredths)
        \cup {999, 1000, 4500, 5999, 6000, 6001, 6530, 40002, 42530, 46555, 59999, 60000,
              359999}

\* baselines and elapsed times of the percentage, in seconds; 0 is a missing value
PercentTimes == {0, 100, 195, 390, 400}

\* distances of the percentage, in metres; 0 is a missing value
PercentDistances == {0, 500, 1000, 2000}

Called(fn, timeStr, seconds, args, percent) ==
    [fn |-> fn, timeStr |-> timeStr, seconds |-> seconds, args |-> args,
     percent |-> percent]

\* parseTimeToSeconds(timeStr) on a text
ParseTime(timeStr) ==
    /\ call' = Called("parseTimeToSeconds", timeStr, parseTimeToSeconds(timeStr),
                      << >>, NoCall.percent)
    /\ UNCHANGED <<userStates, userSessions, userSettings, cache, files, backups,
                   pending, sent, logged, handled, faults, polling>>

\* formatTime(seconds) on an elapsed time given in hundredths of a second
FormatTime(x) ==
    /\ call' = Called("formatTime", formatTime(10 * x), 10 * x, << >>, NoCall.percent)
    /\ UNCHANGED <<userStates, userSessions, userSettings, cache, files, backups,
                   pending, sent, logged, handled, faults, polling>>

\* parseTimeToSeconds on the display time formatTime has just produced, as the
\* exporter reads the stored display times back; args keeps the time formatted
ParseFormatted ==
    /\ call.fn = "formatTime"
    /\ call' = Called("parseFormatted", call.timeStr, parseTimeToSeconds(call.timeStr),
                      <<call.seconds>>, NoCall.percent)
    /\ UNCHANGED <<userStates, userSessions, userSettings, cache, files, backups,
                   pending, sent, logged, handled, faults, polling>>

\* calculateModelPercentage(baseModelTime, distance, userTime)
Percentage(baseModelTime, distance, userTime) ==
    /\ call' = Called("calculateModelPercentage", << >>, 0,
                      <<baseModelTime, distance, userTime>>,
                      calculateModelPercentage(baseModelTime, distance, userTime))
    /\ UNCHANGED <<userStates, userSessions, userSettings, cache, files, backups,
                   pending, sent, logged, handled, faults, polling>>

\* a step of the polling code: nothing else changes
Polled(P, event) ==
    /\ ~polling.exited
    /\ polling' = [P EXCEPT !.event = event]
    /\ UNCHANGED <<userStates, userSessions, userSettings, cache, files, backups,
                   pending, sent, logged, handled, faults, call>>

\* a request for updates is answered with 409 Conflict
PollingConflict ==
    /\ polling.running /\ polling.rival
    /\ polling.retryCount < MAX_RETRIES => Suspended409(polling) < MaxHandlers
    /\ Polled(OnPollingConflict(polling), "conflict")

\* a request for updates fails in another way: the handler only logs
PollingError ==
    /\ polling.running
    /\ polling.event # "error"
    /\ Polled(polling, "error")

\* a request for updates succeeds
PollingSuccess ==
    /\ polling.running /\ ~polling.rival
    /\ polling.event # "success"
    /\ Polled(OnPollingSuccess(polling), "success")

\* the other process stops polling
RivalStops ==
    /\ polling.rival
    /\ Polled([polling EXCEPT !.rival = FALSE], "rival")

\* the backoff timer of a conflict fires
DelayElapsed ==
    /\ polling.awaiting["delay"] > 0
    /\ polling.restarts < MaxRestarts
    /\ Polled(restartPolling(polling), "restart")

\* bot.stopPolling() settles
StopSettled(resolved) ==
    /\ polling.awaiting["stopping"] > 0
    /\ Polled(stopPolling(polling, resolved), "stopped")

\* the timer between stop and start fires
RestartDelayElapsed ==
    /\ polling.awaiting["restartDelay"] > 0
    /\ Polled(startPolling(polling), "start")

\* bot.startPolling() settles
StartSettled(at, resolved) ==
    /\ at \in {"init", "starting"}
    /\ polling.awaiting[at] > 0
    /\ Polled(startPollingSettled(polling, at, resolved), "started")

PollNext ==
    \/ PollingConflict
    \/ PollingError
    \/ PollingSuccess
    \/ RivalStops
    \/ DelayElapsed
    \/ \E resolved \in BOOLEAN : StopSettled(resolved)
    \/ RestartDelayElapsed
    \/ \E at \in {"init", "starting"}, resolved \in BOOLEAN : StartSettled(at, resolved)

PollSpec == Init /\ [][PollNext]_vars

CodecNext ==
    \/ \E timeStr \in TimeStrings : ParseTime(timeStr)
    \/ \E x \in ElapsedTimes : FormatTime(x)
    \/ ParseFormatted
    \/ \E baseModelTime \in PercentTimes, distance \in PercentDistances,
          userTime \in PercentTimes : Percentage(baseModelTime, distance, userTime)

CodecSpec == Init /\ [][CodecNext]_vars

(***************************************************************************)
(* Claims                                                                  *)
(***************************************************************************)
\* the conversation state of a user after the step; a user without an entry is
\* dispatched as WAITING_MODEL_TYPE
StateAfter(u) ==
    IF userStates'[u] = NoState THEN "WAITING_MODEL_TYPE" ELSE userStates'[u].state

\* the Results of a user's session, none without a session
ResultsOf(sessions, u) ==
    IF sessions[u] = NoSession THEN << >> ELSE sessions[u].results

\* the edges of the conversation other than the reset by cancel
Edges ==
    {<<"WAITING_MODEL_TYPE", "WAITING_MODE">>,
     <<"WAITING_MODE", "WAITING_NAME">>,
     <<"WAITING_MODE", "WAITING_AGE">>,
     <<"WAITING_NAME", "WAITING_AGE">>,
     <<"WAITING_AGE", "WAITING_DISTANCE">>,
     <<"WAITING_DISTANCE", "WAITING_BOAT">>,
     <<"WAITING_BOAT", "WAITING_TIME">>,
     <<"WAITING_TIME", "WAITING_MODEL_TYPE">>,
     <<"WAITING_TIME", "WAITING_NEXT_ACTION">>,
     <<"WAITING_NEXT_ACTION", "WAITING_TIME">>,
     <<"WAITING_NEXT_ACTION", "WAITING_NAME">>,
     <<"WAITING_NEXT_ACTION", "EDITING_LAST_TIME">>,
     <<"WAITING_NEXT_ACTION", "WAITING_MODEL_TYPE">>,
     <<"EDITING_LAST_TIME", "WAITING_NEXT_ACTION">>}

\* C1: every change of a user's conversation state made by the message handler
\* (its continuations after an await included) or by the cancel handler is one of
\* the listed edges, the reset to WAITING_MODEL_TYPE being allowed from every state
\* other than WAITING_NEXT_ACTION when the step is a cancel.  The start command is
\* not one of the two handlers.
C1_OnlyListedEdges ==
    [][\A u \in Users :
         (HandlerState(u) # StateAfter(u) /\ handled'.kind # "start") =>
            \/ <<HandlerState(u), StateAfter(u)>> \in Edges
            \/ /\ handled'.kind = "cancel"
               /\ HandlerState(u) # "WAITING_NEXT_ACTION"
               /\ StateAfter(u) = "WAITING_MODEL_TYPE"]_vars

\* the states that validate their input
ValidatingStates ==
    {"WAITING_MODEL_TYPE", "WAITING_MODE", "WAITING_AGE", "WAITING_DISTANCE",
     "WAITING_BOAT", "WAITING_TIME", "WAITING_NEXT_ACTION", "EDITING_LAST_TIME"}

\* a text equals an entry of a list or contains one
InVocabulary(list, text) ==
    \E i \in 1..Len(list) : list[i] = text \/ Includes(text, list[i])

\* the text matches the vocabulary of the state the conversation st is in
MatchesVocabulary(st, text) ==
    CASE st.state = "WAITING_MODEL_TYPE"  -> text \in {worldModel, russiaModel}
      [] st.state = "WAITING_MODE"        ->
            \/ InVocabulary(worldAgeCategories \o russiaAgeCategories, Trim(text))
            \/ InVocabulary(<<tokCreateRu, tokCreateEn, tokCreateKey>>, Trim(text))
            \/ InVocabulary(<<tokSingleRu, tokSingleEn, tokSingleKey>>, Trim(text))
      [] st.state = "WAITING_AGE"         ->
            InVocabulary(AgeCategoriesOf(st.modelType), Trim(text))
      [] st.state = "WAITING_DISTANCE"    -> InVocabulary(distances, Trim(text))
      [] st.state = "WAITING_BOAT"        -> InVocabulary(boatClasses, Trim(text))
      [] st.state = "WAITING_TIME"        -> parseTimeToSeconds(text) > 0
      [] st.state = "WAITING_NEXT_ACTION" ->
            text \in {enterMoreTime, newName, finishAndGetExcel, editLastTime}
      [] st.state = "EDITING_LAST_TIME"   -> parseTimeToSeconds(text) > 0
      [] OTHER                            -> TRUE

\* the message a state answers a mismatch with
RePrompt(state) ==
    CASE state = "WAITING_MODEL_TYPE"  -> "invalidModel"
      [] state = "WAITING_MODE"        -> "selectMode"
      [] state = "WAITING_AGE"         -> "invalidAge"
      [] state = "WAITING_DISTANCE"    -> "invalidDistance"
      [] state = "WAITING_BOAT"        -> "invalidBoat"
      [] state = "WAITING_TIME"        -> "invalidTime"
      [] state = "WAITING_NEXT_ACTION" -> "invalidAction"
      [] state = "EDITING_LAST_TIME"   -> "invalidTime"

\* C2: in a validating state, a message whose text does not match the state's
\* vocabulary (in the time states: parses to a non-positive number of seconds)
\* leaves the user's conversation state with all its scratch fields and the user's
\* session (its Results) unchanged, pushes no Action, and sends exactly the state's
\* re-prompt.
C2_MismatchChangesNothing ==
    [][\A u \in Users :
         (/\ handled'.kind = "message"
          /\ handled'.user = u
          /\ userStates[u] # NoState
          /\ userStates[u].state \in ValidatingStates
          /\ ~MatchesVocabulary(userStates[u], handled'.text))
         => /\ userStates'[u] = userStates[u]
            /\ userSessions'[u] = userSessions[u]
            /\ logged' = << >>
            /\ sent' = <<[key |-> RePrompt(userStates[u].state)]>>]_vars

\* a rejected time has just been handled for a user whose session holds a Result
C2_Witness ==
    /\ handled = Handled("message", "u1", timeNegative, "none")
    /\ userStates["u1"] # NoState
    /\ userStates["u1"].state = "WAITING_TIME"
    /\ sent = <<[key |-> "invalidTime"]>>
    /\ ResultsOf(userSessions, "u1") # << >>

\* C3: for a user that has a conversation state, a cancel message received in
\* WAITING_NEXT_ACTION sets the state to WAITING_TIME and keeps every scratch field;
\* received in any other state it replaces the conversation state by a fresh one in
\* WAITING_MODEL_TYPE with every scratch field null.
C3_CancelEffect ==
    [][\A u \in Users :
         (userStates[u] # NoState /\ handled'.kind = "cancel" /\ handled'.user = u) =>
            IF userStates[u].state = "WAITING_NEXT_ACTION"
            THEN userStates'[u] = [userStates[u] EXCEPT !.state = "WAITING_TIME"]
            ELSE userStates'[u] = InitialState]_vars

\* a cancel has just been handled in WAITING_NEXT_ACTION: the scratch fields are kept
C3_Witness ==
    /\ handled.kind = "cancel"
    /\ handled.user = "u1"
    /\ userStates["u1"] # NoState
    /\ userStates["u1"].state = "WAITING_TIME"
    /\ userStates["u1"].name = nameA
    /\ userStates["u1"].boatClass = boatClasses[1]

\* C4: handling a cancel message never destroys or modifies the user's session: it
\* exists afterwards iff it existed before, with the same Results, and no Action is
\* pushed.
C4_CancelKeepsSession ==
    [][\A u \in Users :
         (handled'.kind = "cancel" /\ handled'.user = u) =>
            /\ userSessions'[u] = userSessions[u]
            /\ logged' = << >>]_vars

\* a cancel has just reset the conversation of a user whose session holds a Result
C4_Witness ==
    /\ handled.kind = "cancel"
    /\ handled.user = "u1"
    /\ userStates["u1"] = InitialState
    /\ ResultsOf(userSessions, "u1") # << >>

\* a message with a positive time is handled in WAITING_TIME for user u, the call
\* named by fault failing in it
TimeEntered(u, fault) ==
    /\ handled'.kind = "message"
    /\ handled'.user = u
    /\ handled'.fault = fault
    /\ userStates[u] # NoState
    /\ userStates[u].state = "WAITING_TIME"
    /\ parseTimeToSeconds(handled'.text) > 0

\* C5: in WAITING_TIME in accumulate mode, a message that parses to a positive time
\* and whose calculation and save do not fail appends exactly one Result to the
\* user's session (the earlier Results staying as they are) and pushes an Action onto
\* that session's log; when the handler resumes after the save it moves the state to
\* WAITING_NEXT_ACTION.
C5_AccumulateAppends ==
    [][\A u \in Users :
         /\ (TimeEntered(u, "none") /\ userStates[u].mode = createFile) =>
               /\ Len(ResultsOf(userSessions', u)) = Len(ResultsOf(userSessions, u)) + 1
               /\ SubSeq(ResultsOf(userSessions', u), 1, Len(ResultsOf(userSessions, u)))
                      = ResultsOf(userSessions, u)
               /\ logged' # << >>
         /\ (handled' = Handled("saved", u, << >>, "none")) =>
               StateAfter(u) = "WAITING_NEXT_ACTION"]_vars

TimeEdited(u) ==
    /\ handled'.kind = "message"
    /\ handled'.user = u
    /\ userStates[u] # NoState
    /\ userStates[u].state = "EDITING_LAST_TIME"
    /\ parseTimeToSeconds(handled'.text) > 0

\* the percentage calculator applied to a Result's own variant, age category, boat
\* class and distance and to a time in seconds
OwnPercentage(r, seconds) ==
    PercentToFixed2(calculateModelPercentage(
        BaseModelTime(r.modelType, r.ageCategory, r.boatClass), r.distance, seconds))

\* C7: a valid time entered in EDITING_LAST_TIME sets the last Result's display time
\* to the formatted new time and its percentage to the value recomputed from that
\* Result's own variant, age category, boat class and distance with the new time,
\* leaves every earlier Result unchanged, keeps the number of Results, and returns
\* the state to WAITING_NEXT_ACTION.
C7_EditLastRecomputes ==
    [][\A u \in Users :
         TimeEdited(u) =>
            LET old     == ResultsOf(userSessions, u)
                new     == ResultsOf(userSessions', u)
                n       == Len(old)
                seconds == parseTimeToSeconds(handled'.text)
            IN  /\ n > 0
                /\ Len(new) = n
                /\ new[n].time = formatTime(seconds)
                /\ new[n].modelPercentage = OwnPercentage(old[n], seconds)
                /\ SubSeq(new, 1, n - 1) = SubSeq(old, 1, n - 1)
                /\ StateAfter(u) = "WAITING_NEXT_ACTION"]_vars

\* the second of two Results was edited from "6:40.02" to the time "6:40.022"
C7_Witness ==
    /\ handled = Handled("message", "u1", timeColon, "none")
    /\ sent = <<[key |-> "timeUpdated"], [key |-> "selectAction"]>>
    /\ Len(ResultsOf(userSessions, "u1")) = 2
    /\ ResultsOf(userSessions, "u1")[2].modelPercentage
          # ResultsOf(userSessions, "u1")[1].modelPercentage

\* C8: while a user's session exists (a /start replaces it by a new one), no step
\* removes or reorders its Results or modifies a Result other than the last one, and
\* the last Result is modified only by a valid time entered in EDITING_LAST_TIME.
C8_AppendOnlyExceptLast ==
    [][\A u \in Users :
         (/\ ~(handled'.kind = "start" /\ handled'.user = u)
          /\ userSessions[u] # NoSession
          /\ userSessions'[u] # NoSession) =>
            LET old == ResultsOf(userSessions, u)
                new == ResultsOf(userSessions', u)
                n   == Len(old)
            IN  /\ Len(new) >= n
                /\ SubSeq(new, 1, n - 1) = SubSeq(old, 1, n - 1)
                /\ (n > 0 /\ new[n] # old[n]) => TimeEdited(u)]_vars

\* a second Result was appended behind a first one that has another percentage
C8_Witness ==
    /\ handled = Handled("message", "u1", timeDots, "none")
    /\ userStates["u1"] # NoState
    /\ userStates["u1"].state = "WAITING_TIME"
    /\ Len(ResultsOf(userSessions, "u1")) = 2
    /\ ResultsOf(userSessions, "u1")[1].modelPercentage
          # ResultsOf(userSessions, "u1")[2].modelPercentage

\* C9: in every state, the stored percentage of every Result of every session is the
\* percentage calculator applied to the Result's stored variant, age category, boat
\* class, distance and stored display time.
C9_StoredPercentageDerivable ==
    \A u \in Users :
        \A i \in 1..Len(ResultsOf(userSessions, u)) :
            LET r == ResultsOf(userSessions, u)[i]
            IN  r.modelPercentage = OwnPercentage(r, parseTimeToSeconds(r.time))

\* the Results recorded for a subject name, in the order of the session
AttemptsOf(results, nm) == SelectSeq(results, LAMBDA r : r.name = nm)

\* every populated percentage cell shows the percentage of its own attempt
OwnPercentages(results, doc) ==
    \A g \in 1..Len(doc.rows) :
        LET attempts == AttemptsOf(results, doc.rows[g].name)
        IN  \A i \in 1..Len(attempts) :
                /\ doc.rows[g].cells[i].shown = "value"
                /\ doc.rows[g].cells[i].percent
                      = OwnPercentage(attempts[i], parseTimeToSeconds(attempts[i].time))

\* C10: the report built when "Завершить и получить Excel" is handled shows, for
\* each attempt, the percentage calculator applied to that attempt's own variant,
\* age category, boat class, distance and display time.
C10_ExportOwnAttributes ==
    [][\A u \in Users :
         (/\ handled' = Handled("message", u, finishAndGetExcel, "none")
          /\ Len(pending') > Len(pending)
          /\ pending'[Len(pending')].kind = "write") =>
            OwnPercentages(ResultsOf(userSessions, u), pending'[Len(pending')].doc)]_vars


\* C11: when the export at the end of a full walk (start, variant, accumulate mode,
\* name, age, distance, boat, valid time, repeat-entry, valid time, export) has been
\* delivered, the user has received a non-null artifact with exactly 2 attempts of
\* the one subject, the user's session no longer exists and the conversation state
\* is WAITING_MODEL_TYPE.
C11_FullWalk ==
    [][\A u \in Users :
         handled' = Handled("delivered", u, << >>, "none") =>
            /\ sent' # << >>
            /\ sent'[1].key = "document"
            /\ sent'[1].doc # NoFile
            /\ sent'[1].doc.total = 2
            /\ sent'[1].doc.athletes = 1
            /\ sent'[1].doc.rows[1].name = nameA
            /\ userSessions'[u] = NoSession
            /\ StateAfter(u) = "WAITING_MODEL_TYPE"]_vars


C15_HandledToCompletion ==
    [][\A u \in Users :
         (handled'.kind \in {"message", "cancel", "start"} /\ handled'.user = u) =>
            \A k \in 1..Len(pending) : pending[k].user # u]_vars

\* no entry of the list is a substring of another entry of the list
NoEntryInAnother(list) ==
    \A i, j \in 1..Len(list) : i # j => ~Includes(list[i], list[j])

\* the lists the texts of a conversation are matched against: both age lists in
\* WAITING_MODE, the age list of the selected variant in WAITING_AGE, the boat
\* classes in WAITING_BOAT
MatchedLists(st) ==
    {worldAgeCategories, russiaAgeCategories, boatClasses,
     AgeCategoriesOf(IF st = NoState THEN Null ELSE st.modelType)}

\* C18: within each vocabulary list used for matching (world age categories,
\* national age categories, boat classes) no entry is a substring of another entry.
C18_NoEntryInAnother ==
    \A u \in Users : \A list \in MatchedLists(userStates[u]) : NoEntryInAnother(list)

\* a message is handled for user u in the given conversation state
MessageIn(u, state) ==
    /\ handled'.kind = "message"
    /\ handled'.user = u
    /\ handled'.fault = "none"
    /\ userStates[u] # NoState
    /\ userStates[u].state = state

\* C19: in WAITING_MODE an input that matches an age-category token moves the
\* conversation to WAITING_AGE with the age-selection prompt and nothing else: no
\* error message, no field set; an age category is set only by an input in
\* WAITING_AGE, and it is an entry of the list of the selected variant.
C19_AgeTokenInMode ==
    [][\A u \in Users :
         /\ (MessageIn(u, "WAITING_MODE") /\ IsAgeCategory(Trim(handled'.text))) =>
               /\ userStates'[u] = [userStates[u] EXCEPT !.state = "WAITING_AGE"]
               /\ sent' = <<[key |-> "selectAge"]>>
         /\ (/\ userStates[u] # NoState
             /\ userStates'[u] # NoState
             /\ userStates'[u].ageCategory # Null
             /\ userStates'[u].ageCategory # userStates[u].ageCategory) =>
               /\ MessageIn(u, "WAITING_AGE")
               /\ IndexOf(AgeCategoriesOf(userStates[u].modelType),
                          userStates'[u].ageCategory) # 0]_vars

\* "Мужчина" was sent in WAITING_MODE: the state is WAITING_AGE, no mode is set
C19_Witness ==
    /\ handled = Handled("message", "u1", ageMen, "none")
    /\ userStates["u1"] # NoState
    /\ userStates["u1"].state = "WAITING_AGE"
    /\ userStates["u1"].mode = Null
    /\ userStates["u1"].ageCategory = Null
    /\ sent = <<[key |-> "selectAge"]>>

\* C20: "Новое имя" in WAITING_NEXT_ACTION yields a state in WAITING_NAME with the
\* previous model type and mode and with name, age category, distance, boat class
\* and time null; the session's Results and Actions are unchanged.
C20_NewSubject ==
    [][\A u \in Users :
         (MessageIn(u, "WAITING_NEXT_ACTION") /\ handled'.text = newName) =>
            /\ userStates'[u] = [InitialState EXCEPT
                                    !.state = "WAITING_NAME",
                                    !.modelType = userStates[u].modelType,
                                    !.mode = userStates[u].mode]
            /\ userSessions'[u] = userSessions[u]
            /\ logged' = << >>]_vars

\* "Новое имя" was sent after a Result of Anna had been saved
C20_Witness ==
    /\ handled = Handled("message", "u1", newName, "none")
    /\ userStates["u1"] # NoState
    /\ userStates["u1"].state = "WAITING_NAME"
    /\ userStates["u1"].modelType = worldModel
    /\ userStates["u1"].mode = createFile
    /\ userStates["u1"].name = Null
    /\ Len(ResultsOf(userSessions, "u1")) = 1


\* the closed vocabulary of a conversation state, in the order of its keyboard
VocabularyOf(st) ==
    CASE st.state = "WAITING_MODEL_TYPE"  -> <<worldModel, russiaModel>>
      [] st.state = "WAITING_MODE"        -> <<singleTime, createFile>>
      [] st.state = "WAITING_AGE"         -> AgeCategoriesOf(st.modelType)
      [] st.state = "WAITING_DISTANCE"    -> distances
      [] st.state = "WAITING_BOAT"        -> boatClasses
      [] st.state = "WAITING_NEXT_ACTION" ->
            <<enterMoreTime, newName, finishAndGetExcel, editLastTime>>
      [] OTHER                            -> << >>

\* C17: in a state with a closed vocabulary, a text that equals a vocabulary entry or
\* contains one is accepted, and it is handled as the first entry, in list order,
\* that equals it or is contained in it: the conversation state and the replies are
\* those of that entry.
C17_FirstMatchSelected ==
    [][\A u \in Users :
         (handled'.kind = "message" /\ handled'.user = u) =>
            LET st   == IF userStates[u] = NoState THEN InitialState ELSE userStates[u]
                list == VocabularyOf(st)
                i    == FindMatch(list, handled'.text)
            IN  i # 0 =>
                  /\ sent' # <<[key |-> RePrompt(st.state)]>>
                  /\ userStates' = OnMessage(Stores, u, list[i], "none").states
                  /\ sent' = OnMessage(Stores, u, list[i], "none").sent]_vars


\* the conversation state a user is dispatched on, with its scratch fields; a user
\* without an entry is given the initial state by the handler
StateView(states, u) == IF states[u] = NoState THEN InitialState ELSE states[u]

\* C14: a /backup message is not consumed as input of the current state: it leaves
\* the sending user's conversation state and scratch fields exactly as they were.
C14_BackupBypassesStates ==
    [][\A u \in Users :
         (handled'.kind = "backup" /\ handled'.user = u) =>
            StateView(userStates', u) = StateView(userStates, u)]_vars

\* C16: handling an event of user a (a message, cancel or command, or the completion
\* of something its handler awaits) never changes the session, conversation state or
\* settings entry of another user b.
C16_OtherUsersUntouched ==
    [][\A a, b \in Users :
         (a # b /\ handled'.user = a) =>
            /\ userStates'[b] = userStates[b]
            /\ userSessions'[b] = userSessions[b]
            /\ userSettings'[b] = userSettings[b]]_vars


FieldsNotYetVisited(state) ==
    CASE state = "WAITING_MODEL_TYPE" ->
             {"modelType", "mode", "name", "ageCategory", "distance", "boatClass", "time"}
      [] state = "WAITING_MODE"     -> {"mode", "name", "ageCategory", "distance", "boatClass"}
      [] state = "WAITING_NAME"     -> {"name", "ageCategory", "distance", "boatClass"}
      [] state = "WAITING_AGE"      -> {"ageCategory", "distance", "boatClass"}
      [] state = "WAITING_DISTANCE" -> {"distance", "boatClass"}
      [] state = "WAITING_BOAT"     -> {"boatClass"}
      [] OTHER                      -> {}

\* the null of a scratch field: the distance is a number, the others are labels
NullOf(field) == IF field \in {"distance", "time"} THEN NullNumber ELSE Null

\* C22: in every reachable conversation state, each scratch field whose owning state
\* has not yet been visited in the current cycle is null: all fields in
\* WAITING_MODEL_TYPE; mode, name, age category, distance and boat class in
\* WAITING_MODE; name, age category, distance and boat class in WAITING_NAME; age
\* category, distance and boat class in WAITING_AGE; distance and boat class in
\* WAITING_DISTANCE; boat class in WAITING_BOAT.
C22_UnvisitedFieldsNull ==
    \A u \in Users :
        userStates[u] # NoState =>
            \A field \in FieldsNotYetVisited(userStates[u].state) :
                userStates[u][field] = NullOf(field)

\* a second cycle has reached WAITING_BOAT: a Result with a boat class is stored and
\* the boat class of the conversation is null again
C22_Witness ==
    /\ userStates["u1"] # NoState
    /\ userStates["u1"].state = "WAITING_BOAT"
    /\ userStates["u1"].boatClass = Null
    /\ ResultsOf(userSessions, "u1") # << >>


\* C23: when a message of a user who has no Session is handled (the user did not send
\* the start command), a Session with the synthesized subject label exists for that
\* user once the message has been handled, so that every user with a conversation
\* state has a Session.
C23_SessionOnFirstMessage ==
    [][\A u \in Users :
          (/\ handled'.kind = "message"
           /\ handled'.user = u
           /\ userSessions[u] = NoSession)
              => /\ userSessions'[u] # NoSession
                 /\ userSessions'[u].username = DefaultUsername(u)]_vars


\* C24: after a start command, whatever the user's condition was before it, the
\* user's conversation state is WAITING_MODEL_TYPE with every scratch field null and
\* the user's session is a new one: no Results, and an audit log that holds the start
\* action only.
C24_StartResetsAll ==
    [][\A u \in Users :
          (handled'.kind = "start" /\ handled'.user = u)
              => /\ userStates'[u] = InitialState
                 /\ userSessions'[u] = [username |-> FromName(u), results |-> << >>]
                 /\ logged' = <<"start_bot">>]_vars

\* the start command was handled while a save of the same user was in flight: the
\* session that held the Result being saved has been replaced by an empty one
C24_Witness ==
    /\ handled.kind = "start"
    /\ handled.user = "u1"
    /\ pending # << >>
    /\ pending[1].user = "u1"
    /\ pending[1].kind = "save"
    /\ userStates["u1"] = InitialState
    /\ userSessions["u1"] = [username |-> FromName("u1"), results |-> << >>]
    /\ logged = <<"start_bot">>


\* a string without its leading minus sign
Unsigned(s) == IF s # << >> /\ Head(s) = "-" THEN Tail(s) ELSE s

\* a component that is a number: after an optional minus sign, digits with at most
\* one decimal point among them
IsNumeral(s) ==
    /\ \E i \in 1..Len(Unsigned(s)) : IsDigit(Unsigned(s)[i])
    /\ \A i \in 1..Len(Unsigned(s)) : IsDigit(Unsigned(s)[i]) \/ Unsigned(s)[i] = "."
    /\ Len(Split(Unsigned(s), ".")) <= 2

\* a component that is a whole number
IsWhole(s) == s # << >> /\ \A i \in 1..Len(s) : IsDigit(s[i])

\* the value of a numeral, in thousandths
NumeralValue(s) ==
    (IF Unsigned(s) = s THEN 1 ELSE 0 - 1)
        * (1000 * DigitsValue(Split(Unsigned(s), ".")[1])
           + (IF Len(Split(Unsigned(s), ".")) = 2
              THEN FractionValue(Split(Unsigned(s), ".")[2]) ELSE 0))

\* a value and its rounding to 2 decimal places, both in thousandths
IsRoundingOf(r, v) == r % 10 = 0 /\ r - v \in -5..5

\* the disambiguation rule applied to a string whose shape has the components given:
\* minutes and seconds of the colon shape, the three groups of the dotted shape, the
\* whole string otherwise; the result is 0 when a component is not a number
FollowsRule(timeStr, r) ==
    IF Includes(timeStr, <<":">>)
    THEN IF /\ Len(Split(timeStr, ":")) = 2
            /\ IsNumeral(Split(timeStr, ":")[1])
            /\ IsNumeral(Split(timeStr, ":")[2])
         THEN r = 60 * NumeralValue(Split(timeStr, ":")[1])
                      + NumeralValue(Split(timeStr, ":")[2])
         ELSE r = 0
    ELSE IF Len(Split(timeStr, ".")) = 3
    THEN IF \A i \in 1..3 : IsWhole(Split(timeStr, ".")[i])
         THEN r = 60 * 1000 * DigitsValue(Split(timeStr, ".")[1])
                      + 1000 * DigitsValue(Split(timeStr, ".")[2])
                      + FractionValue(Split(timeStr, ".")[3])
         ELSE r = 0
    ELSE IF IsNumeral(timeStr)
         THEN IsRoundingOf(r, NumeralValue(timeStr))
         ELSE r = 0

\* C25: for every input string parseTimeToSeconds follows the disambiguation rule: a
\* string with a colon is minutes:seconds; else a string of exactly three
\* dot-separated groups is minutes, then seconds.hundredths; else the whole string is
\* plain seconds; a component that cannot be parsed yields 0.  The inputs include
\* "45.55" (45.55), "7:45.55" (465.55), "7.45.55" (465.55) and "not a time" (0).
C25_DisambiguationRule ==
    call.fn = "parseTimeToSeconds" => FollowsRule(call.timeStr, call.seconds)


\* C26: for every input string, in each of the three shapes, the value returned by
\* parseTimeToSeconds is a non-negative number of seconds rounded to 2 decimal places
\* (in thousandths of a second: not below 0 and a multiple of 10).
C26_NonNegativeRounded ==
    call.fn = "parseTimeToSeconds" => call.seconds >= 0 /\ call.seconds % 10 = 0


\* the form minutes:seconds.hundredths with the seconds part of width 5: a whole
\* number of minutes, a colon, two digits of seconds, a point, two digits
HasDisplayForm(timeStr) ==
    /\ Len(Split(timeStr, ":")) = 2
    /\ IsWhole(Split(timeStr, ":")[1])
    /\ Len(Split(timeStr, ":")[2]) = 5
    /\ \A i \in {1, 2, 4, 5} : IsDigit(Split(timeStr, ":")[2][i])
    /\ Split(timeStr, ":")[2][3] = "."
    /\ DigitsValue(SubSeq(Split(timeStr, ":")[2], 1, 2)) < 60

\* C27: for every non-negative elapsed time x given in hundredths of a second,
\* formatTime(x) has the form minutes:seconds.hundredths with the seconds part
\* zero-padded to width 5, and parseTimeToSeconds(formatTime(x)) is x again.
C27_RoundTrip ==
    /\ call.fn \in {"formatTime", "parseFormatted"} => HasDisplayForm(call.timeStr)
    /\ call.fn = "parseFormatted" => call.seconds = call.args[1]

\* 425.30 s was formatted as "7:05.30", seconds padded, and read back as 425.30 s
C27_Witness ==
    /\ call.fn = "parseFormatted"
    /\ call.args = <<425300>>
    /\ call.timeStr = <<"7", ":", "0", "5", ".", "3", "0">>
    /\ call.seconds = 425300


\* the percentage p, a fraction of percents over 20, is the number q
PercentIs(p, q) == p.n = 20 * q * p.d

\* C28: calculateModelPercentage(baseline, distance, elapsed) is
\* (distance / elapsed) / (2000 / baseline) * 100 when the three inputs are present
\* and not zero, and 0 when one of them is missing or zero; (390, 2000, 390) and
\* (390, 1000, 195) give 100 and (0, 2000, 100) gives 0.  With the result p.n / p.d
\* in twentieths of a percent the formula reads
\* p.n / (20 * p.d) = distance * baseline / (20 * elapsed).
C28_PercentageFormula ==
    call.fn = "calculateModelPercentage" =>
        /\ (call.args[1] = 0 \/ call.args[2] = 0 \/ call.args[3] = 0)
               => PercentIs(call.percent, 0)
        /\ (call.args[1] # 0 /\ call.args[2] # 0 /\ call.args[3] # 0)
               => call.percent.n * call.args[3]
                      = call.args[2] * call.args[1] * call.percent.d
        /\ call.args = <<390, 2000, 390>> => PercentIs(call.percent, 100)
        /\ call.args = <<390, 1000, 195>> => PercentIs(call.percent, 100)
        /\ call.args = <<0, 2000, 100>> => PercentIs(call.percent, 0)

\* the percentage of 1000 m in 195 s against a baseline of 390 s was computed: 100
C28_Witness ==
    /\ call.fn = "calculateModelPercentage"
    /\ call.args = <<390, 1000, 195>>
    /\ PercentToFixed2(call.percent) = 10000


\* the workbook of user u is being written, built from a session that holds 2
\* attempts of subject A and 1 attempt of subject B and nothing else
TeamExported(u) ==
    /\ pending # << >>
    /\ pending[1].kind = "write"
    /\ pending[1].user = u
    /\ Len(ResultsOf(userSessions, u)) = 3
    /\ Len(AttemptsOf(ResultsOf(userSessions, u), nameA)) = 2
    /\ Len(AttemptsOf(ResultsOf(userSessions, u), nameB)) = 1

\* the row of a subject in the workbook has the given numbers of populated and of
\* blank time/percentage pairs, and there is one row of that subject only
RowHasPairs(doc, nm, populated, blank) ==
    /\ Cardinality({g \in 1..Len(doc.rows) : doc.rows[g].name = nm}) = 1
    /\ \A g \in 1..Len(doc.rows) :
          doc.rows[g].name = nm =>
              /\ Cardinality({i \in 1..Len(doc.rows[g].cells) :
                                doc.rows[g].cells[i].shown = "value"}) = populated
              /\ Cardinality({i \in 1..Len(doc.rows[g].cells) :
                                doc.rows[g].cells[i] = BlankCell}) = blank
              /\ Len(doc.rows[g].cells) = populated + blank

\* C29 as stated: for a session with subjects A (2 attempts) and B (1 attempt) the
\* exporter produces a row for A with 2 populated time/percentage pairs and one
\* blank pair, and a row for B with 1 populated pair and one blank pair.
C29_RowsWithBlankPairEach ==
    \A u \in Users :
        TeamExported(u) =>
            /\ RowHasPairs(pending[1].doc, nameA, 2, 1)
            /\ RowHasPairs(pending[1].doc, nameB, 1, 1)

\* C29 amended: for a session with subjects A (2 attempts) and B (1 attempt) the
\* exporter produces a row for A with 2 populated time/percentage pairs and no blank
\* pair, and a row for B with 1 populated pair and one blank pair.
C29_RowsRagged ==
    \A u \in Users :
        TeamExported(u) =>
            /\ Len(pending[1].doc.rows) = 2
            /\ RowHasPairs(pending[1].doc, nameA, 2, 0)
            /\ RowHasPairs(pending[1].doc, nameB, 1, 1)

\* the workbook of A, B, A is being written: two rows, the second with a blank pair
C29_Witness ==
    /\ TeamExported("u1")
    /\ ResultsOf(userSessions, "u1")[2].name = nameB
    /\ Len(pending[1].doc.rows) = 2
    /\ pending[1].doc.rows[2].cells[2] = BlankCell


\* the percentages a row shows, added up, and their number
RECURSIVE SumShown(_)
SumShown(cells) ==
    IF cells = << >> THEN 0
    ELSE (IF Head(cells).shown = "value" THEN Head(cells).percent ELSE 0)
             + SumShown(Tail(cells))

RECURSIVE SumRows(_)
SumRows(rows) ==
    IF rows = << >> THEN 0 ELSE SumShown(Head(rows).cells) + SumRows(Tail(rows))

\* the mean of n values that add up to sum, rounded to a whole number (the values
\* are hundredths of a percent)
RoundedMean(sum, n) == (2 * sum + n) \div (2 * n)

\* C30: the average percentage of the summary is the arithmetic mean of the
\* percentages of all attempts of all subjects of the session (their sum divided by
\* the number of attempts), and it is the mean of the per-attempt percentages that
\* the rows of the report show.
C30_FlatAverageOfShown ==
    \A k \in 1..Len(pending) :
        pending[k].kind = "write" =>
            /\ pending[k].doc.teamAvgModel
                   = RoundedMean(SumPercent(ResultsOf(userSessions, pending[k].user)),
                                 Len(ResultsOf(userSessions, pending[k].user)))
            /\ pending[k].doc.teamAvgModel
                   = RoundedMean(SumRows(pending[k].doc.rows), pending[k].doc.total)


\* C31: when the write of the session file fails while a Result is being saved, the
\* failure is not surfaced: the message is handled exactly as when the write
\* succeeds, that is the Result is appended to the session held in memory and the
\* handler waits for a save that has succeeded, on whose completion the result is
\* sent and the conversation moves to WAITING_NEXT_ACTION.
C31_DiskFailureNotSurfaced ==
    [][\A u \in Users :
          (/\ handled'.kind = "message"
           /\ handled'.user = u
           /\ handled'.fault = "disk")
              => /\ Len(ResultsOf(userSessions', u)) = Len(ResultsOf(userSessions, u)) + 1
                 /\ userSessions' = OnMessage(Stores, u, handled'.text, "none").sessions
                 /\ userStates' = OnMessage(Stores, u, handled'.text, "none").states
                 /\ pending' = OnMessage(Stores, u, handled'.text, "none").pending
                 /\ pending'[Len(pending')].kind = "save"
                 /\ pending'[Len(pending')].ok]_vars

\* the only save of the session met a failing write of the session file: the Result
\* is in the session, the result was sent and the next action is asked for
C31_Witness ==
    /\ faults = 1
    /\ cache["u1"] = NoPath
    /\ handled = Handled("saved", "u1", << >>, "none")
    /\ Len(ResultsOf(userSessions, "u1")) = 1
    /\ userStates["u1"].state = "WAITING_NEXT_ACTION"
    /\ sent = <<[key |-> "timeResult", percentage |-> 9750], [key |-> "selectAction"]>>


\* the (key, value) pairs of a map: one pair for every user the map holds
Listing(map, none) == {e \in Users \X {map[u] : u \in Users} : map[e[1]] = e[2] /\ e[2] # none}

\* the snapshot lists the three stores as given
Snapshots(snapshot, sessions, states, settings) ==
    /\ snapshot.userSessions = Listing(sessions, NoSession)
    /\ snapshot.userStates = Listing(states, NoState)
    /\ snapshot.userSettings = Listing(settings, NoSettings)

\* C32: restoring from a snapshot created from stores S (sessions, conversation
\* states, settings) reconstructs stores equal to S, whatever the stores held before
\* the restore: the snapshot written by a backup lists the stores as they are when
\* it is taken, and after a restore each of the three maps holds the keys of the
\* snapshot and no others, each with the value of the snapshot.
C32_RestoreReconstructs ==
    [][/\ handled'.kind = "backup" =>
              Snapshots(pending'[Len(pending')].doc, userSessions', userStates',
                        userSettings')
       /\ (handled'.kind = "restored" /\ backups # NoBackup) =>
              Snapshots(backups, userSessions', userStates', userSettings')]_vars

\* a snapshot that holds the first user only has been restored after the second user
\* had started: the second user has no entry again
C32_Witness ==
    /\ handled.kind = "restored"
    /\ backups # NoBackup
    /\ \E e \in backups.userStates : e[1] = "u1" /\ e[2].state = "WAITING_BOAT"
    /\ userStates["u1"].state = "WAITING_BOAT"
    /\ userSessions["u2"] = NoSession
    /\ userStates["u2"] = NoState


\* C33: whenever the conversation state is WAITING_AGE, WAITING_DISTANCE,
\* WAITING_BOAT or WAITING_TIME, the scratch field model type is one of the two
\* variants and the scratch field mode is single-entry or accumulate, never null.
C33_VariantAndModeSet ==
    \A u \in Users :
        (/\ userStates[u] # NoState
         /\ userStates[u].state \in {"WAITING_AGE", "WAITING_DISTANCE", "WAITING_BOAT",
                                     "WAITING_TIME"})
            => /\ userStates[u].modelType \in {worldModel, russiaModel}
               /\ userStates[u].mode \in {singleTime, createFile}


\* C34: in WAITING_BOAT, a message whose text is exactly a boat class of the offered
\* list stores that boat class in the scratch field (the class that the Result saved
\* next records and that the baseline lookup uses).
C34_BoatClassStoredAsSent ==
    [][\A u \in Users :
          (/\ MessageIn(u, "WAITING_BOAT")
           /\ \E k \in 1..Len(boatClasses) : boatClasses[k] = handled'.text)
              => /\ userStates'[u].state = "WAITING_TIME"
                 /\ userStates'[u].boatClass = handled'.text]_vars


\* C35: whenever an export request gets an artifact, the artifact is generated from
\* the Results that the user's session holds at the time of the request: the
\* workbook being written, or the file returned without writing, is the report of
\* those Results, never the artifact of an earlier export request of the user.
C35_ArtifactOfThisRequest ==
    [][\A u \in Users :
          (/\ MessageIn(u, "WAITING_NEXT_ACTION")
           /\ handled'.text = finishAndGetExcel
           /\ Len(pending') > Len(pending))
              => IF pending'[Len(pending')].kind = "write"
                 THEN pending'[Len(pending')].doc = Report(ResultsOf(userSessions, u))
                 ELSE files[pending'[Len(pending')].path]
                          = Report(ResultsOf(userSessions, u))]_vars


\* C36: no Result of a user's session is discarded by the teardown that follows an
\* export without being in the artifact that was delivered: the session deleted when
\* a delivery completes holds exactly the Results the delivered workbook was built
\* from, also when a Result was appended or the last one edited while the export was
\* in flight.
C36_TeardownLosesNothing ==
    [][\A u \in Users :
          (/\ handled' = Handled("delivered", u, << >>, "none")
           /\ userSessions[u] # NoSession
           /\ userSessions'[u] = NoSession)
              => \/ userSessions[u].results = << >>
                 \/ sent'[1].doc = Report(userSessions[u].results)]_vars


\* C37: in every state reached through start, message and cancel events, whenever
\* the conversation state is WAITING_NEXT_ACTION or EDITING_LAST_TIME the user's
\* session exists and holds at least one Result, and the subject name, age category,
\* distance and boat class of the last Result are the current scratch fields.
C37_LastResultMatchesScratch ==
    \A u \in Users :
        (/\ userStates[u] # NoState
         /\ userStates[u].state \in {"WAITING_NEXT_ACTION", "EDITING_LAST_TIME"})
            => /\ ResultsOf(userSessions, u) # << >>
               /\ LET last == userSessions[u].results[Len(userSessions[u].results)]
                  IN  /\ last.name = userStates[u].name
                      /\ last.ageCategory = userStates[u].ageCategory
                      /\ last.distance = userStates[u].distance
                      /\ last.boatClass = userStates[u].boatClass


\* the last Result is being edited: the session holds it and it carries the subject
\* name, age category, distance and boat class of the scratch fields
C37_Witness ==
    /\ userStates["u1"] # NoState
    /\ userStates["u1"].state = "EDITING_LAST_TIME"
    /\ Len(ResultsOf(userSessions, "u1")) = 2
    /\ userSessions["u1"].results[2].name = userStates["u1"].name
    /\ userSessions["u1"].results[2].boatClass = userStates["u1"].boatClass
    /\ userStates["u1"].name = nameA


\* C38: for a user that has a conversation state, a cancel message leaves the
\* conversation in WAITING_MODEL_TYPE with every scratch field null when it is
\* received in a state other than WAITING_NEXT_ACTION, and also when the step before
\* it handled a cancel message of the same user: two consecutive cancel messages
\* reset the conversation from every state, one does from every state but
\* WAITING_NEXT_ACTION.
C38_TwoCancelsReset ==
    [][\A u \in Users :
          (/\ userStates[u] # NoState
           /\ handled'.kind = "cancel"
           /\ handled'.user = u
           /\ \/ userStates[u].state # "WAITING_NEXT_ACTION"
              \/ handled.kind = "cancel" /\ handled.user = u)
              => userStates'[u] = InitialState]_vars

\* the second of two cancel messages has been handled with a Result in the session:
\* the reply is the model type prompt and the conversation is the initial one
C38_Witness ==
    /\ handled.kind = "cancel"
    /\ handled.user = "u1"
    /\ sent = <<[key |-> "selectModel"]>>
    /\ userStates["u1"] = InitialState
    /\ ResultsOf(userSessions, "u1") # << >>
    /\ pending = << >>


\* C39: when restoreFromBackup reports failure (returns false), the sessions,
\* conversation states and settings held in memory are the same as before the
\* restore attempt.
C39_FailedRestoreKeepsStores ==
    [][handled'.kind = "restorefailed" =>
           /\ userSessions' = userSessions
           /\ userStates' = userStates
           /\ userSettings' = userSettings]_vars


\* the retry counter is at most MAX_RETRIES
RetryCountBounded == polling.retryCount <= MAX_RETRIES

\* while the conflict lasts, restartPolling has been called at most MAX_RETRIES times
RestartsBounded == polling.rival => polling.restarts <= MAX_RETRIES

\* a conflict that follows a conflict waits twice the delay of the one before
DelayDoubles ==
    [][(polling.rival /\ polling'.event = "conflict" /\ polling.delay # 0
          /\ polling.retryCount < MAX_RETRIES)
           => polling'.delay = 2 * polling.delay]_vars

\* C40: while every request for updates is answered with a 409 conflict, the retry
\* counter never exceeds MAX_RETRIES, polling is restarted at most MAX_RETRIES times
\* before the process stops, and each conflict waits twice as long as the conflict
\* before it.
C40_BoundedBackoff == []RetryCountBounded /\ []RestartsBounded /\ DelayDoubles

=============================================================================
